---- MODULE Spec2Model ----
(***************************************************************************)
(* Revenue forecast and retention/churn engine of the bot                  *)
(* (src/modules/revenue_forecast): the plan bucket classifier, the         *)
(* renewal probability estimator, the month-start baseline, the forecast   *)
(* compositor, the retention/churn analyzer and the report request with   *)
(* its entry-point handler, over a small relational store of plans, keys  *)
(* (subscriptions) and payments.                                           *)
(*                                                                         *)
(* Time is counted in days (the code's millisecond epoch divided by        *)
(* 86400000); the reporting window [start, end) is one 30-day month.       *)
(* Money is counted in whole roubles.  Probabilities and rates are exact   *)
(* fractions <<numerator, denominator>> with a positive denominator.       *)
(***************************************************************************)
EXTENDS Integers, Sequences, FiniteSets, Bags, TLC

VARIABLES
    flags,          \* module settings: the policy switches
    keys,           \* table keys: bag of subscription rows
    payments,       \* table payments: bag of payment rows
    group_code,     \* argument of _bucket_plan
    duration_days,  \* argument of _bucket_plan
    bucket,         \* result of _bucket_plan
    est,            \* result of estimate_auto_renewal_probs
    base,           \* result of get_baseline_expiring_by_plan
    ret,            \* result of _calc_retention_churn
    fin,            \* settings and query results the compositor reads
    data,           \* result of _render_summary
    reply           \* what the entry-point handler did with the callback

vars == <<flags, keys, payments, group_code, duration_days, bucket,
          est, base, ret, fin, data, reply>>

----------------------------------------------------------------------------
(* Optional values: None is Python's None / SQL NULL, Some(x) a value.     *)

None == <<>>
Some(x) == <<x>>
IsNone(v) == v = <<>>
Val(v) == v[1]
\* Python's `v or d` / SQL COALESCE(v, d) for an optional number
\* (`or` also replaces a zero).
OrElse(v, d) == IF IsNone(v) \/ Val(v) = 0 THEN d ELSE Val(v)
Coalesce(v, d) == IF IsNone(v) THEN d ELSE Val(v)

\* group_code is a string column; NoCode stands for NULL.
NoCode == "NULL"

\* "not computed yet" marker of the result variables
Idle == [op |-> "idle"]

----------------------------------------------------------------------------
(* Exact fractions                                                         *)

Frac(n, d) == <<n, d>>
FAdd(a, b) == <<a[1] * b[2] + b[1] * a[2], a[2] * b[2]>>
FSub(a, b) == <<a[1] * b[2] - b[1] * a[2], a[2] * b[2]>>
FMul(a, b) == <<a[1] * b[1], a[2] * b[2]>>
FEq(a, b) == a[1] * b[2] = b[1] * a[2]
FLt(a, b) == a[1] * b[2] < b[1] * a[2]
FLe(a, b) == a[1] * b[2] <= b[1] * a[2]
FMax(a, b) == IF FLt(a, b) THEN b ELSE a
FMin(a, b) == IF FLt(b, a) THEN b ELSE a
FZero == <<0, 1>>
FOne == <<1, 1>>

\* the same fraction in lowest terms
RECURSIVE Gcd(_, _)
Gcd(a, b) == IF b = 0 THEN a ELSE Gcd(b, a % b)
FNorm(a) ==
    LET n == IF a[1] < 0 THEN 0 - a[1] ELSE a[1]
        g == Gcd(a[2], n)
    IN  <<a[1] \div g, a[2] \div g>>

----------------------------------------------------------------------------
(* Plan Bucket Classifier: _bucket_plan                                    *)

Buckets == {"1m", "3m", "12m", "other"}

\* Python round(n / m) for integers n and m > 0: nearest integer, ties to
\* the even one.  \div is floor division and % the non-negative remainder.
PyRoundDiv(n, m) ==
    LET q == n \div m
        r == n % m
    IN  IF 2 * r < m THEN q
        ELSE IF 2 * r > m THEN q + 1
        ELSE IF q % 2 = 0 THEN q ELSE q + 1

\* round((duration_days or 0) / 30) if duration_days else 0
PeriodMonths(days) ==
    IF IsNone(days) \/ Val(days) = 0 THEN 0 ELSE PyRoundDiv(Val(days), 30)

\* A mutant of the classifier: the duration is looked at before the tag.
BucketPlanDurationFirst(gcode, days) ==
    LET months == PeriodMonths(days)
    IN  IF months = 1 THEN "1m"
        ELSE IF months = 3 THEN "3m"
        ELSE IF 10 <= months /\ months <= 13 THEN "12m"
        ELSE IF gcode \in {"1m", "3m", "12m"} THEN gcode
        ELSE "other"

BucketPlan(gcode, days) ==
    IF gcode \in {"1m", "3m", "12m"} THEN gcode
    ELSE LET months == PeriodMonths(days)
         IN  IF months = 1 THEN "1m"
             ELSE IF months = 3 THEN "3m"
             ELSE IF 10 <= months /\ months <= 13 THEN "12m"
             ELSE "other"

----------------------------------------------------------------------------
(* The relational store.  A table is a bag of rows: SQL keeps no row order *)
(* and two rows may carry the same values.                                 *)

\* The rows of table b that are in the set S, and how many there are.
Where(b, S) == [r \in DOMAIN b \cap S |-> b[r]]
CountWhere(b, S) == BagCardinality(Where(b, S))

\* Table tariffs.  Plans 1 and 3 share their display name; plan 3 has no
\* duration; plan 4 is a free trial shorter than a month.
PlanIds == 1..4
Plans ==
    (1 :> [name |-> "M", group_code |-> "1m", duration_days |-> Some(30),
           price_rub |-> Some(100)]) @@
    (2 :> [name |-> "Q", group_code |-> NoCode, duration_days |-> Some(90),
           price_rub |-> Some(300)]) @@
    (3 :> [name |-> "M", group_code |-> NoCode, duration_days |-> None,
           price_rub |-> Some(50)]) @@
    (4 :> [name |-> "T", group_code |-> "trial", duration_days |-> Some(10),
           price_rub |-> Some(0)])
PlanNames == {Plans[i].name : i \in PlanIds}

Accounts == {1, 2}

\* dt_start, dt_end of the current month, the length of the trailing
\* months of the estimator and the moment of the request, in days
Window == [start |-> 30, end |-> 60, month |-> 30, now |-> 45]

\* keys JOIN tariffs ON tariff_id = id
PlanOf(k) == Plans[k.tariff_id]

\* flags.SKIP_FROZEN -> is_frozen IS FALSE
FrozenOk(k, f) == f.SKIP_FROZEN => ~k.is_frozen

\* flags.EXCLUDE_TRIALS -> NOT (group_code = 'trial' OR COALESCE(price, 0) = 0)
\* (a NULL group_code makes the comparison NULL, which OR treats as false
\* when the price is not zero, and NOT NULL filters the row otherwise)
TrialOk(k, f) ==
    f.EXCLUDE_TRIALS =>
        LET pl == PlanOf(k)
        IN  /\ Coalesce(pl.price_rub, 0) # 0
            /\ pl.group_code # NoCode
            /\ pl.group_code # "trial"

----------------------------------------------------------------------------
(* Renewal Probability Estimator: estimate_auto_renewal_probs              *)

\* months_back and grace_days as _render_summary passes them
MonthsBack == 3
GraceDays == 0

\* CTE months: trailing month i is [start - i months, start - (i-1) months)
MonthStart(i) == Window.start - i * Window.month
MonthEnd(i) == Window.start - (i - 1) * Window.month

\* CTE plans and base: COALESCE(duration_days, 30), prev_ms = expiry - dur
EstDuration(k) == Coalesce(PlanOf(k).duration_days, 30)
EstPrev(k) == k.expiry_time - EstDuration(k)

\* CTE filtered: JOIN months ON prev_ms >= start_ms AND prev_ms < end_ms
InMonth(k, i) == EstPrev(k) >= MonthStart(i) /\ EstPrev(k) < MonthEnd(i)

\* CTE prepared: the CASE over duration_days
SqlBucket(d) ==
    IF 25 <= d /\ d <= 40 THEN "1m"
    ELSE IF 80 <= d /\ d <= 100 THEN "3m"
    ELSE IF 360 <= d /\ d <= 390 THEN "12m"
    ELSE "other"

\* WHERE skip_frozen IS FALSE OR is_frozen IS FALSE AND (exclude_trials IS
\* FALSE OR group_code IS DISTINCT FROM 'trial'): AND binds before OR.
EstWhere(k, f) ==
    \/ ~f.SKIP_FROZEN
    \/ /\ ~k.is_frozen
       /\ (~f.EXCLUDE_TRIALS \/ PlanOf(k).group_code # "trial")

\* COUNT(*) and COUNT(*) FILTER (WHERE expiry_time >= end_ms + grace_ms) of
\* bucket b
EstCohort(K, f, b) ==
    CountWhere(K, {k \in DOMAIN K :
        /\ \E i \in 1..MonthsBack : InMonth(k, i)
        /\ SqlBucket(EstDuration(k)) = b
        /\ EstWhere(k, f)})
EstRenewed(K, f, b) ==
    CountWhere(K, {k \in DOMAIN K :
        /\ \E i \in 1..MonthsBack :
              InMonth(k, i) /\ k.expiry_time >= MonthEnd(i) + GraceDays
        /\ SqlBucket(EstDuration(k)) = b
        /\ EstWhere(k, f)})

\* GROUP BY bucket: one row <<bucket, cohort, renewed>> per non-empty bucket
EstRows(K, f) ==
    {<<b, EstCohort(K, f, b), EstRenewed(K, f, b)>> :
        b \in {x \in Buckets : EstCohort(K, f, x) > 0}}

\* the loop over rows into totals, which starts at (0, 0) for each bucket
EstTotals(rows) ==
    [b \in Buckets |->
        IF \E r \in rows : r[1] = b
        THEN LET r == CHOOSE x \in rows : x[1] = b IN <<r[2], r[3]>>
        ELSE <<0, 0>>]

\* p = (R + 1) / (C + 2) if C > 0 else 1.0, clamped to [0, 1]
SmoothedProb(C, R) ==
    LET p == IF C > 0 THEN Frac(R + 1, C + 2) ELSE FOne
    IN  FMax(FZero, FMin(FOne, p))

EstimateAutoRenewalProbs(K, f) ==
    LET totals == EstTotals(EstRows(K, f))
    IN  [op |-> "est",
         totals |-> totals,
         probs |-> [b \in Buckets |-> SmoothedProb(totals[b][1], totals[b][2])]]

----------------------------------------------------------------------------
(* Expiring-by-plan snapshots: get_expiring_by_plan and                    *)
(* get_baseline_expiring_by_plan                                           *)

InWindow(t) == t >= Window.start /\ t < Window.end

\* All orders in which a SELECT without ORDER BY may return the rows S.
Orders(S) ==
    {o \in [1..Cardinality(S) -> S] :
        \A i, j \in 1..Cardinality(S) : i # j => o[i] # o[j]}

\* d[name] = entry
Put(d, name, entry) ==
    [n \in DOMAIN d \cup {name} |-> IF n = name THEN entry ELSE d[n]]

\* One row of the GROUP BY plan: (id, name, group_code, count, price,
\* duration), turned into the dictionary entry both loops build.
PlanEntry(id, count) ==
    LET pl == Plans[id]
    IN  [count |-> count,
         price |-> OrElse(pl.price_rub, 0),
         period_months |->
             IF IsNone(pl.duration_days) \/ Val(pl.duration_days) = 0
             THEN None
             ELSE Some(PyRoundDiv(Val(pl.duration_days), 30)),
         group_code |-> pl.group_code,
         bucket |-> BucketPlan(pl.group_code, pl.duration_days)]

\* WHERE expiry_time >= start_ms AND expiry_time < end_ms, with the policy
ExpiringKey(k, f) ==
    InWindow(k.expiry_time) /\ FrozenOk(k, f) /\ TrialOk(k, f)

ExpiringCount(K, f, id) ==
    CountWhere(K, {k \in DOMAIN K : k.tariff_id = id /\ ExpiringKey(k, f)})

\* the plans that have a row in the result (an inner join: count >= 1)
ExpiringPlans(K, f) == {id \in PlanIds : ExpiringCount(K, f, id) > 0}

\* for ... in result: data[str(name)] = {...}, rows taken in order o
RECURSIVE ExpiringLoop(_, _, _, _)
ExpiringLoop(K, f, o, i) ==
    IF i = 0 THEN <<>>
    ELSE Put(ExpiringLoop(K, f, o, i - 1), Plans[o[i]].name,
             PlanEntry(o[i], ExpiringCount(K, f, o[i])))

GetExpiringByPlan(K, f, o) == ExpiringLoop(K, f, o, Len(o))

\* prev_expiry_ms = expiry_time - COALESCE(duration_days, 0) days
BasePrev(k) == k.expiry_time - Coalesce(PlanOf(k).duration_days, 0)

PrevKey(k, f) == InWindow(BasePrev(k)) /\ FrozenOk(k, f) /\ TrialOk(k, f)

PrevCount(K, f, id) ==
    CountWhere(K, {k \in DOMAIN K : k.tariff_id = id /\ PrevKey(k, f)})

PrevPlans(K, f) == {id \in PlanIds : PrevCount(K, f, id) > 0}

\* for ... in result_prev: a new name gets an entry; a name seen before
\* gets the count added and the price replaced by a non-zero other price
RECURSIVE PrevLoop(_, _, _, _)
PrevLoop(K, f, o, i) ==
    IF i = 0 THEN <<>>
    ELSE LET d == PrevLoop(K, f, o, i - 1)
             name == Plans[o[i]].name
             row == PlanEntry(o[i], PrevCount(K, f, o[i]))
         IN  IF name \notin DOMAIN d THEN Put(d, name, row)
             ELSE Put(d, name,
                      [d[name] EXCEPT
                          !.count = @ + row.count,
                          !.price = IF row.price # 0 /\ row.price # @
                                    THEN row.price ELSE @])

\* A mutant of the merge: the second source replaces the first
\* (dict.update) instead of being added to it.
MergeSnapshotsOverwrite(current, prev_data) ==
    [n \in DOMAIN current \cup DOMAIN prev_data |->
        IF n \in DOMAIN prev_data THEN prev_data[n] ELSE current[n]]

\* merged: for src in (current, prev_data): a new name is copied, a name
\* seen before gets the count added and a non-zero price taken over
MergeSnapshots(current, prev_data) ==
    [n \in DOMAIN current \cup DOMAIN prev_data |->
        IF n \notin DOMAIN current THEN prev_data[n]
        ELSE IF n \notin DOMAIN prev_data THEN current[n]
        ELSE [current[n] EXCEPT
                 !.count = @ + prev_data[n].count,
                 !.price = IF prev_data[n].price # 0
                           THEN prev_data[n].price ELSE @]]

GetBaselineExpiringByPlan(K, f, o, oprev) ==
    LET current == GetExpiringByPlan(K, f, o)
        prev_data == PrevLoop(K, f, oprev, Len(oprev))
    IN  [op |-> "base",
         current |-> current,
         prev_data |-> prev_data,
         merged |-> MergeSnapshots(current, prev_data)]

----------------------------------------------------------------------------
(* Retention/Churn Analyzer: _calc_retention_churn                         *)

\* prev_expiry_ms = expiry_time - COALESCE(duration_days, 0) days
RetPrev(k) == k.expiry_time - Coalesce(PlanOf(k).duration_days, 0)

\* q_candidates: WHERE prev_expiry_ms in [start_ms, end_ms), with the policy
CandidateKey(k, f) == InWindow(RetPrev(k)) /\ FrozenOk(k, f) /\ TrialOk(k, f)

\* a row of q_candidates: (expiry_ms, gcode, days, price, tg_id)
RealRow(k) ==
    [expiry_ms |-> Some(k.expiry_time),
     gcode |-> PlanOf(k).group_code,
     days |-> PlanOf(k).duration_days,
     price |-> PlanOf(k).price_rub,
     tg_id |-> k.tg_id]

\* cand_rows = (await session.execute(q_candidates)).all()
RealCandidates(K, f) ==
    LET cands == {k \in DOMAIN K : CandidateKey(k, f)}
    IN  [r \in {RealRow(k) : k \in cands} |->
            CountWhere(K, {k \in cands : RealRow(k) = r})]

\* cand_tg_ids = {tg for *_rest, tg in cand_rows}
CandTgIds(real) == {r.tg_id : r \in DOMAIN real}

\* successful payments created in [dt_start, dt_end), grouped by tg_id
PaidInMonthTg(P) ==
    {p.tg_id : p \in {x \in DOMAIN P :
        x.status = "success" /\ InWindow(x.created_at)}}

\* price_to_plan.setdefault(int(price_rub or 0), (int(dd or 30), gcode)):
\* the first plan row of a price stays, and the rows come in any order, so
\* each price may map to any plan that carries it.
PlanPrice(id) == OrElse(Plans[id].price_rub, 0)
PlanInfo(id) ==
    [dd |-> OrElse(Plans[id].duration_days, 30), gcode |-> Plans[id].group_code]
PriceToPlanMaps ==
    LET prices == {PlanPrice(id) : id \in PlanIds}
    IN  {[pr \in prices |-> PlanInfo(sel[pr])] :
            sel \in {s \in [prices -> PlanIds] :
                        \A pr \in prices : PlanPrice(s[pr]) = pr}}

\* base: successful payments created before dt_end
BeforeEnd(P) ==
    {p \in DOMAIN P : p.status = "success" /\ p.created_at < Window.end}

\* A mutant of the ranking: every successful payment before dt_end is
\* taken, not only the most recent one of each account.
LastPaysUnranked(P) == {BeforeEnd(P)}

\* rn = 1 of row_number() OVER (PARTITION BY tg_id ORDER BY created_at
\* DESC): one payment per account, a most recent one; row_number breaks a
\* tie either way.  The set of the possible results of the query.
LastPays(P) ==
    {L \in SUBSET BeforeEnd(P) :
        /\ \A p \in L : \A q \in BeforeEnd(P) :
              q.tg_id = p.tg_id => q.created_at <= p.created_at
        /\ \A q \in BeforeEnd(P) :
              Cardinality({p \in L : p.tg_id = q.tg_id}) = 1}

\* A mutant of the fallback filter: the account's presence among the real
\* candidates is not looked at.
FallbackAdmittedNoDedup(p, cand_tg_ids, price_to_plan) ==
    /\ p.amount \in DOMAIN price_to_plan
    /\ InWindow(p.created_at + price_to_plan[p.amount].dd)

\* the loop over last_pays: skip an account of cand_tg_ids, skip an amount
\* no plan is priced at, admit when paid_at + dd days is in [start, end)
FallbackAdmitted(p, cand_tg_ids, price_to_plan) ==
    /\ p.tg_id \notin cand_tg_ids
    /\ p.amount \in DOMAIN price_to_plan
    /\ InWindow(p.created_at + price_to_plan[p.amount].dd)

\* fallback_rows.append((None, gcode, dd, price_key, tg_id))
FallbackRow(p, price_to_plan) ==
    [expiry_ms |-> None,
     gcode |-> price_to_plan[p.amount].gcode,
     days |-> Some(price_to_plan[p.amount].dd),
     price |-> Some(p.amount),
     tg_id |-> p.tg_id]

FallbackRows(last_pays, cand_tg_ids, price_to_plan) ==
    LET adm == {p \in last_pays :
                   FallbackAdmitted(p, cand_tg_ids, price_to_plan)}
    IN  [r \in {FallbackRow(p, price_to_plan) : p \in adm} |->
            Cardinality({p \in adm : FallbackRow(p, price_to_plan) = r})]

\* A mutant of the classification: a payment in the month also renews a
\* candidate that has an expiry.
RenewedRowPaidOrExtended(r, paid_in_month_tg) ==
    \/ r.tg_id \in paid_in_month_tg
    \/ ~IsNone(r.expiry_ms) /\ Val(r.expiry_ms) >= Window.end

\* the classification loop: a row with an expiry is renewed when
\* expiry_ms >= end_ms, a row without one when its account paid in the month
RenewedRow(r, paid_in_month_tg) ==
    IF ~IsNone(r.expiry_ms) THEN Val(r.expiry_ms) >= Window.end
    ELSE r.tg_id \in paid_in_month_tg

\* A mutant of the loop: the else branch of the rows without an expiry is
\* lost, so an unpaid synthetic candidate is counted nowhere.
NotRenewedRowRealOnly(r, paid_in_month_tg) ==
    ~IsNone(r.expiry_ms) /\ Val(r.expiry_ms) < Window.end

NotRenewedRow(r, paid_in_month_tg) ==
    IF ~IsNone(r.expiry_ms) THEN ~(Val(r.expiry_ms) >= Window.end)
    ELSE ~(r.tg_id \in paid_in_month_tg)

\* bucket_counts[bucket] = bucket_counts.get(bucket, 0) + 1
BucketCounts(rows, paid_in_month_tg) ==
    LET nr == {r \in DOMAIN rows : NotRenewedRow(r, paid_in_month_tg)}
        bs == {BucketPlan(r.gcode, r.days) : r \in nr}
    IN  [b \in bs |->
            CountWhere(rows, {r \in nr : BucketPlan(r.gcode, r.days) = b})]

\* p = p_map.get(bucket, default_p); (1.0 - float(p or 0.0)) * cnt
ChurnTerm(b, cnt, p_map, default_p) ==
    LET p == IF b \in DOMAIN p_map THEN p_map[b] ELSE default_p
    IN  FMul(FSub(FOne, p), Frac(cnt, 1))

RECURSIVE PredictedChurn(_, _, _, _)
PredictedChurn(bucket_counts, bs, p_map, default_p) ==
    IF bs = {} THEN FZero
    ELSE LET b == CHOOSE x \in bs : TRUE
         IN  FAdd(ChurnTerm(b, bucket_counts[b], p_map, default_p),
                  PredictedChurn(bucket_counts, bs \ {b}, p_map, default_p))

\* A mutant of the empty-cohort return: the rates are reported as 0.
RatesZeroWhenEmpty(renewed, not_renewed, candidates_total) ==
    IF candidates_total = 0
    THEN [retention_rate |-> Some(FZero), churn_rate |-> Some(FZero)]
    ELSE [retention_rate |-> Some(Frac(renewed, candidates_total)),
          churn_rate |-> Some(Frac(not_renewed, candidates_total))]

\* if candidates_total == 0: both rates are None; else renewed /
\* candidates_total and not_renewed / candidates_total
Rates(renewed, not_renewed, candidates_total) ==
    IF candidates_total = 0
    THEN [retention_rate |-> None, churn_rate |-> None]
    ELSE [retention_rate |-> Some(Frac(renewed, candidates_total)),
          churn_rate |-> Some(Frac(not_renewed, candidates_total))]

CalcRetentionChurn(K, P, f, probs, global_prob, last_pays, price_to_plan) ==
    LET real == RealCandidates(K, f)
        paid == PaidInMonthTg(P)
        fallback == FallbackRows(last_pays, CandTgIds(real), price_to_plan)
        cand_rows == real (+) fallback
        total == BagCardinality(cand_rows)
        renewed ==
            CountWhere(cand_rows,
                       {r \in DOMAIN cand_rows : RenewedRow(r, paid)})
        not_renewed ==
            CountWhere(cand_rows,
                       {r \in DOMAIN cand_rows : NotRenewedRow(r, paid)})
        bucket_counts == BucketCounts(cand_rows, paid)
        default_p == Coalesce(global_prob, FOne)
        rates == Rates(renewed, not_renewed, total)
    IN  [op |-> "ret",
         real |-> real,
         fallback |-> fallback,
         cand_rows |-> cand_rows,
         retention_rate |-> rates.retention_rate,
         churn_rate |-> rates.churn_rate,
         renewed_count |-> IF total = 0 THEN 0 ELSE renewed,
         not_renewed_yet |-> IF total = 0 THEN 0 ELSE not_renewed,
         bucket_counts |-> IF total = 0 THEN <<>> ELSE bucket_counts,
         predicted_churn |->
             IF total = 0 THEN FZero
             ELSE PredictedChurn(bucket_counts, DOMAIN bucket_counts,
                                 probs, default_p)]

\* texts.render_summary: a rate is shown as a percentage with one decimal
\* (tenths of a percent here), a missing rate as a dash
RenderRate(rate) ==
    IF IsNone(rate) THEN [shown |-> "dash"]
    ELSE [shown |-> "pct",
          tenths |-> PyRoundDiv(Val(rate)[1] * 1000, Val(rate)[2])]

----------------------------------------------------------------------------
(* Forecast Compositor: compute_forecast and the figures of                *)
(* _render_summary                                                         *)

\* overrides.get(key): None when the key is absent
Lookup(overrides, key) ==
    IF key \in DOMAIN overrides THEN Some(overrides[key]) ELSE None

\* the truth value of an optional probability: None and 0.0 are false
Truthy(v) == ~IsNone(v) /\ Val(v)[1] # 0

\* overrides.get(code) or overrides.get(group_code) or
\* overrides.get(bucket) or (global_prob if global_prob is not None else 1.0)
ResolveProb(code, info, overrides, global_prob) ==
    IF Truthy(Lookup(overrides, code)) THEN overrides[code]
    ELSE IF Truthy(Lookup(overrides, info.group_code))
         THEN overrides[info.group_code]
    ELSE IF Truthy(Lookup(overrides, info.bucket))
         THEN overrides[info.bucket]
    ELSE Coalesce(global_prob, FOne)

\* the probability the resolution order names for plan n with entry info:
\* the first of the overrides under the plan name, the group_code and the
\* bucket that exists, else the global probability, else 1
FirstExisting(n, info, overrides, global_prob) ==
    IF n \in DOMAIN overrides THEN overrides[n]
    ELSE IF info.group_code \in DOMAIN overrides
         THEN overrides[info.group_code]
    ELSE IF info.bucket \in DOMAIN overrides THEN overrides[info.bucket]
    ELSE IF ~IsNone(global_prob) THEN Val(global_prob)
    ELSE FOne

\* expected = price * count * prob
Expected(code, info, overrides, global_prob) ==
    FMul(Frac(info.price * info.count, 1),
         ResolveProb(code, info, overrides, global_prob))

\* forecast += expected, over the plans of the snapshot
RECURSIVE ForecastSum(_, _, _, _)
ForecastSum(expiring, names, overrides, global_prob) ==
    IF names = {} THEN FZero
    ELSE LET n == CHOOSE x \in names : TRUE
         IN  FAdd(Expected(n, expiring[n], overrides, global_prob),
                  ForecastSum(expiring, names \ {n}, overrides, global_prob))

\* to_earn = max(0.0, forecast - received)
ToEarn(forecast, received) == FMax(FZero, FSub(forecast, received))

ComputeForecast(expiring, received, probs, global_prob) ==
    LET forecast == ForecastSum(expiring, DOMAIN expiring, probs, global_prob)
    IN  [forecast |-> forecast,
         received |-> received,
         to_earn |-> ToEarn(forecast, received),
         by_plans |->
            [n \in DOMAIN expiring |->
                [expected |-> Expected(n, expiring[n], probs, global_prob),
                 prob |-> ResolveProb(n, expiring[n], probs, global_prob)]]]

Modes == {"cash", "accrual", "plan_vs_forecast"}

FHundred == Frac(100, 1)

\* A mutant of plan_completion_pct: plan_vs_forecast without the clamp.
PlanCompletionPctUnclamped(mode, plan_sum, forecast_sum, recognized_total, fact_sum) ==
    IF ~FLt(FZero, plan_sum) THEN None
    ELSE IF mode = "plan_vs_forecast"
         THEN Some(FMul(FMul(FSub(plan_sum, forecast_sum),
                             Frac(plan_sum[2], plan_sum[1])), FHundred))
    ELSE IF mode = "accrual"
         THEN Some(FMul(FMul(recognized_total,
                             Frac(plan_sum[2], plan_sum[1])), FHundred))
    ELSE Some(FMul(FMul(fact_sum, Frac(plan_sum[2], plan_sum[1])), FHundred))

\* A mutant of plan_completion_pct: 0 instead of None without a baseline.
PlanCompletionPctZeroBaseline(mode, plan_sum, forecast_sum, recognized_total, fact_sum) ==
    IF ~FLt(FZero, plan_sum) THEN Some(FZero)
    ELSE IF mode = "plan_vs_forecast"
         THEN Some(FMax(FZero, FMin(FHundred,
                  FMul(FMul(FSub(plan_sum, forecast_sum),
                            Frac(plan_sum[2], plan_sum[1])), FHundred))))
    ELSE IF mode = "accrual"
         THEN Some(FMul(FMul(recognized_total,
                             Frac(plan_sum[2], plan_sum[1])), FHundred))
    ELSE Some(FMul(FMul(fact_sum, Frac(plan_sum[2], plan_sum[1])), FHundred))

\* plan_completion_pct: None unless plan_sum > 0; else by mode
PlanCompletionPct(mode, plan_sum, forecast_sum, recognized_total, fact_sum) ==
    IF ~FLt(FZero, plan_sum) THEN None
    ELSE IF mode = "plan_vs_forecast"
         THEN Some(FMax(FZero, FMin(FHundred,
                  FMul(FMul(FSub(plan_sum, forecast_sum),
                            Frac(plan_sum[2], plan_sum[1])), FHundred))))
    ELSE IF mode = "accrual"
         THEN Some(FMul(FMul(recognized_total,
                             Frac(plan_sum[2], plan_sum[1])), FHundred))
    ELSE Some(FMul(FMul(fact_sum, Frac(plan_sum[2], plan_sum[1])), FHundred))

\* A mutant of plan_gap: the cash and accrual differences without the clamp.
PlanGapUnclamped(mode, plan_sum, forecast_sum, recognized_total, fact_sum) ==
    IF ~FLt(FZero, plan_sum) THEN FZero
    ELSE IF mode = "plan_vs_forecast" THEN forecast_sum
    ELSE IF mode = "accrual" THEN FSub(plan_sum, recognized_total)
    ELSE FSub(plan_sum, fact_sum)

\* plan_gap: 0.0 unless plan_sum > 0; else the live forecast, or the
\* baseline less the recognized or received amount, not below 0
PlanGap(mode, plan_sum, forecast_sum, recognized_total, fact_sum) ==
    IF ~FLt(FZero, plan_sum) THEN FZero
    ELSE IF mode = "plan_vs_forecast" THEN forecast_sum
    ELSE IF mode = "accrual"
         THEN FMax(FZero, FSub(plan_sum, recognized_total))
    ELSE FMax(FZero, FSub(plan_sum, fact_sum))

\* A mutant of the estimator condition: a configured global probability
\* is not looked at.
UseEstimatorNoOverrides(s) == s.PLAN_PROB_OVERRIDES = <<>>

\* probs_to_use, global_p: the configured overrides and global probability,
\* or the estimate when neither is configured
UseEstimator(s) ==
    s.PLAN_PROB_OVERRIDES = <<>> /\ IsNone(s.RENEWAL_PROBABILITY)
ProbsToUse(s, estimated) ==
    IF UseEstimator(s) THEN estimated ELSE s.PLAN_PROB_OVERRIDES
GlobalP(s) == IF UseEstimator(s) THEN None ELSE s.RENEWAL_PROBABILITY

\* _render_summary from the results of its queries q and the settings s
SummaryFigures(q, s) ==
    LET probs == ProbsToUse(s, q.estimated)
        gp == GlobalP(s)
        live == ComputeForecast(q.expiring, q.received, probs, gp)
        baseline == ComputeForecast(q.baseline_expiring, FZero, probs, gp)
        plan_sum == baseline.forecast
    IN  [op |-> "summary",
         probs_to_use |-> probs,
         global_p |-> gp,
         forecast |-> live.forecast,
         received |-> live.received,
         to_earn |-> live.to_earn,
         by_plans |-> live.by_plans,
         plan_baseline |-> plan_sum,
         plan_completion_pct |->
             PlanCompletionPct(s.COMPLETION_MODE, plan_sum, live.forecast,
                               q.recognized_total, live.received),
         plan_gap |->
             PlanGap(s.COMPLETION_MODE, plan_sum, live.forecast,
                     q.recognized_total, live.received)]

\* A mutant of the handlers: the failure of _render_summary is not caught.
OpenForecastUncaught(rendered) ==
    [op |-> "handled",
     issued |-> rendered.issued,
     failed_at |-> rendered.failed_at,
     edit_text |-> rendered.edit_text,
     state_cleared |-> FALSE,
     answer |-> None,
     raised |-> rendered.raises]

\* open_forecast, refresh_forecast, admin_open: try: await
\* _render_summary(...) except Exception: state.clear(), log,
\* callback.answer(texts.ERROR, show_alert=True)
OpenForecast(rendered) ==
    [op |-> "handled",
     issued |-> rendered.issued,
     failed_at |-> rendered.failed_at,
     edit_text |-> rendered.edit_text,
     state_cleared |-> rendered.raises,
     answer |-> IF rendered.raises THEN Some("ERROR") ELSE None,
     raised |-> FALSE]

----------------------------------------------------------------------------
(* Report generation: the store queries of _render_summary, in the order   *)
(* the code issues them, and what it hands to the message                  *)

\* the sum of the amounts of the rows of table P that are in the set rows
RECURSIVE SumAmounts(_, _)
SumAmounts(P, rows) ==
    IF rows = {} THEN 0
    ELSE LET r == CHOOSE x \in rows : TRUE
         IN  r.amount * P[r] + SumAmounts(P, rows \ {r})

\* get_received: COALESCE(SUM(amount), 0) of the successful payments created
\* in [dt_start, dt_end)
GetReceived(P) ==
    Frac(SumAmounts(P, {p \in DOMAIN P :
            p.status = "success" /\ InWindow(p.created_at)}), 1)

\* get_recognized_revenue_accrual: the subscriptions whose expiry less
\* COALESCE(duration_days, 30) days is in [start, now), with the policy
AccrualKey(k, f) ==
    /\ EstPrev(k) >= Window.start
    /\ EstPrev(k) < Window.now
    /\ FrozenOk(k, f)
    /\ TrialOk(k, f)

\* total += cnt * price over the rows of the GROUP BY plan
RECURSIVE SumPrices(_, _)
SumPrices(K, rows) ==
    IF rows = {} THEN 0
    ELSE LET k == CHOOSE x \in rows : TRUE
         IN  OrElse(PlanOf(k).price_rub, 0) * K[k] + SumPrices(K, rows \ {k})

GetRecognizedRevenueAccrual(K, f) ==
    Frac(SumPrices(K, {k \in DOMAIN K : AccrualKey(k, f)}), 1)

\* the queries of _calc_retention_churn: the last one is only issued when
\* there is a candidate
RetentionQueries(candidates_total) ==
    <<"candidates", "paid_in_month", "plan_prices", "last_payments">>
        \o (IF candidates_total > 0 THEN <<"paid_tg_set">> ELSE <<>>)

\* the queries of calc_kpis
KpiQueries(candidates_total) ==
    <<"paid_sum", "active_users">> \o RetentionQueries(candidates_total)
        \o <<"mrr_active">>

\* the queries of _render_summary: the estimator only when neither
\* overrides nor a global probability are configured, the accrual query
\* only in accrual mode with a positive baseline
ReportQueries(s, plan_sum, candidates_total) ==
    <<"expiring", "baseline_current", "baseline_prev", "received">>
        \o (IF UseEstimator(s) THEN <<"estimator">> ELSE <<>>)
        \o (IF FLt(FZero, plan_sum) /\ s.COMPLETION_MODE = "accrual"
            THEN <<"accrual">> ELSE <<>>)
        \o KpiQueries(candidates_total)

\* texts.render_summary: the completion percentage with one decimal
\* (tenths of a percent here), a missing one as a dash
RenderPct(pct) ==
    IF IsNone(pct) THEN [shown |-> "dash"]
    ELSE LET v == FNorm(Val(pct))
         IN  [shown |-> "pct", tenths |-> PyRoundDiv(v[1] * 10, v[2])]

\* the lines of the report that show an optional figure
RenderSummaryText(d) ==
    [completion |-> RenderPct(d.plan_completion_pct),
     retention |-> RenderRate(d.metrics.retention_rate),
     churn |-> RenderRate(d.metrics.churn_rate)]

\* data["metrics"] = kpis: the retention block of calc_kpis
ReportData(figures, metrics) ==
    figures @@ [metrics |-> [retention_rate |-> metrics.retention_rate,
                             churn_rate |-> metrics.churn_rate,
                             renewed_count |-> metrics.renewed_count,
                             not_renewed_yet |-> metrics.not_renewed_yet,
                             predicted_churn |-> metrics.predicted_churn]]

\* _render_summary when its query number fail_at raises (0: none does):
\* the queries issued up to there, and the text handed to
\* callback.message.edit_text, which is its last statement
RenderSummary(queries, fail_at, d) ==
    [issued |-> IF fail_at = 0 THEN queries ELSE SubSeq(queries, 1, fail_at),
     failed_at |-> fail_at,
     edit_text |-> IF fail_at = 0 THEN Some(RenderSummaryText(d)) ELSE None,
     raises |-> fail_at # 0]

----------------------------------------------------------------------------
(* Rows the surrounding system may put into the store                      *)

MaxKeys == 2
MaxPayments == 2

KeyRows(accounts, plans, expiries, frozen) ==
    [tg_id : accounts, tariff_id : plans, expiry_time : expiries,
     is_frozen : frozen]

PaymentRows(accounts, amounts, times, statuses) ==
    [tg_id : accounts, amount : amounts, created_at : times,
     status : statuses]

FlagSets == [SKIP_FROZEN : BOOLEAN, EXCLUDE_TRIALS : BOOLEAN]

\* A new subscription row; the report of an earlier request is gone.
AddKey(rows) ==
    /\ BagCardinality(keys) < MaxKeys
    /\ \E k \in rows : keys' = keys (+) SetToBag({k})
    /\ est' = Idle
    /\ base' = Idle
    /\ ret' = Idle
    /\ data' = Idle
    /\ reply' = Idle
    /\ UNCHANGED <<flags, payments, group_code, duration_days, bucket, fin>>

\* A new payment row; the report of an earlier request is gone.
AddPayment(rows) ==
    /\ BagCardinality(payments) < MaxPayments
    /\ \E p \in rows : payments' = payments (+) SetToBag({p})
    /\ est' = Idle
    /\ base' = Idle
    /\ ret' = Idle
    /\ data' = Idle
    /\ reply' = Idle
    /\ UNCHANGED <<flags, keys, group_code, duration_days, bucket, fin>>

InitStore ==
    /\ flags \in FlagSets
    /\ keys = EmptyBag
    /\ payments = EmptyBag
    /\ group_code = NoCode
    /\ duration_days = None
    /\ bucket = NoCode
    /\ est = Idle
    /\ base = Idle
    /\ ret = Idle
    /\ fin = Idle
    /\ data = Idle
    /\ reply = Idle

----------------------------------------------------------------------------
(* Specification of the estimator over stores of keys                      *)

EstExpiries == {15, 35, 40, 70}

EstAddKey == AddKey(KeyRows(Accounts, PlanIds, EstExpiries, BOOLEAN))

Estimate ==
    /\ est = Idle
    /\ est' = EstimateAutoRenewalProbs(keys, flags)
    /\ UNCHANGED <<flags, keys, payments, group_code, duration_days, bucket,
                   base, ret, fin, data, reply>>

NextEst == EstAddKey \/ Estimate

SpecEst == InitStore /\ [][NextEst]_vars

\* C1: every bucket's returned probability p satisfies 0 < p < 1 strictly,
\* the buckets with an empty cohort (C = 0) included.
C1_ProbStrictlyInside ==
    est.op = "est" =>
        \A b \in Buckets : FLt(FZero, est.probs[b]) /\ FLt(est.probs[b], FOne)

\* C2: every bucket's returned probability equals (renewed + 1) /
\* (cohort + 2) of that bucket's aggregated counts; a bucket with cohort = 0
\* gets 1/2.
C2_LaplaceFormula ==
    est.op = "est" =>
        \A b \in Buckets :
            /\ FEq(est.probs[b],
                   Frac(est.totals[b][2] + 1, est.totals[b][1] + 2))
            /\ est.totals[b][1] = 0 => FEq(est.probs[b], Frac(1, 2))

\* the subscriptions of the trailing months that the SQL CASE puts in bucket
\* b and that the two policy switches, each on its own, let through: not
\* frozen when skip_frozen is on; neither tagged trial nor priced at zero
\* when exclude_trials is on
PolicyCohort(b) ==
    CountWhere(keys, {k \in DOMAIN keys :
        /\ \E i \in 1..MonthsBack : InMonth(k, i)
        /\ SqlBucket(EstDuration(k)) = b
        /\ flags.SKIP_FROZEN => ~k.is_frozen
        /\ flags.EXCLUDE_TRIALS =>
              /\ PlanOf(k).group_code # "trial"
              /\ Coalesce(PlanOf(k).price_rub, 0) # 0})

\* C16: for all four combinations of the switches, no frozen subscription
\* is counted when skip_frozen is on and no subscription of a plan tagged
\* trial or priced at zero is counted when exclude_trials is on: a bucket's
\* cohort (and so its renewed count) never exceeds the number of
\* subscriptions the policy lets through.
C16_PolicySwitches ==
    est.op = "est" =>
        \A b \in Buckets :
            /\ est.totals[b][1] <= PolicyCohort(b)
            /\ est.totals[b][2] <= PolicyCohort(b)

----------------------------------------------------------------------------
(* Specification of the month-start baseline over stores of keys           *)

BaseExpiries == {40, 70, 130}

BaseAddKey == AddKey(KeyRows(Accounts, PlanIds, BaseExpiries, BOOLEAN))

Baseline ==
    /\ base = Idle
    /\ \E o \in Orders(ExpiringPlans(keys, flags)),
          oprev \in Orders(PrevPlans(keys, flags)) :
            base' = GetBaselineExpiringByPlan(keys, flags, o, oprev)
    /\ UNCHANGED <<flags, keys, payments, group_code, duration_days, bucket,
                   est, ret, fin, data, reply>>

NextBase == BaseAddKey \/ Baseline

SpecBase == InitStore /\ [][NextBase]_vars

\* C8: the baseline is a value merge of the two snapshots: a plan name in
\* both has the sum of the two counts and a price one of them carries (a
\* non-zero one when either has one); a plan name in only one source is
\* carried over unchanged.
C8_ValueMerge ==
    base.op = "base" =>
        /\ DOMAIN base.merged = DOMAIN base.current \cup DOMAIN base.prev_data
        /\ \A n \in DOMAIN base.merged :
            LET inCur == n \in DOMAIN base.current
                inPrev == n \in DOMAIN base.prev_data
            IN  /\ inCur /\ inPrev =>
                    /\ base.merged[n].count =
                          base.current[n].count + base.prev_data[n].count
                    /\ base.merged[n].price \in
                          {base.current[n].price, base.prev_data[n].price}
                    /\ (base.current[n].price # 0
                          \/ base.prev_data[n].price # 0)
                        => base.merged[n].price # 0
                /\ inCur /\ ~inPrev => base.merged[n] = base.current[n]
                /\ inPrev /\ ~inCur => base.merged[n] = base.prev_data[n]

\* The spec's scenario at the size of the store: plan M has one subscription
\* expiring this month and another whose previous cycle ended this month
\* and that has renewed since; the baseline counts both.
C8_Witness ==
    /\ base.op = "base"
    /\ \E k1, k2 \in DOMAIN keys :
        /\ k1.tariff_id = 1 /\ k2.tariff_id = 1
        /\ InWindow(k1.expiry_time) /\ ~InWindow(BasePrev(k1))
        /\ InWindow(BasePrev(k2)) /\ ~InWindow(k2.expiry_time)
    /\ "M" \in DOMAIN base.current /\ "M" \in DOMAIN base.prev_data
    /\ base.current["M"].count = 1
    /\ base.prev_data["M"].count = 1
    /\ base.merged["M"].count = 2

\* the subscriptions of the plans named n that the window holds: the expiry
\* or the implied previous-cycle expiry is in [start, end)
BaselineMembers(n) ==
    CountWhere(keys, {k \in DOMAIN keys :
        /\ PlanOf(k).name = n
        /\ FrozenOk(k, flags) /\ TrialOk(k, flags)
        /\ (InWindow(k.expiry_time) \/ InWindow(BasePrev(k)))})

\* C9: the baseline counts every subscription exactly once per window: a
\* plan's baseline count is the number of subscriptions in the union of the
\* two sources, so a subscription whose expiry and implied previous-cycle
\* expiry both fall in [start, end) contributes 1, not 2.
C9_CountedOnce ==
    base.op = "base" =>
        \A n \in PlanNames :
            (IF n \in DOMAIN base.merged THEN base.merged[n].count ELSE 0)
                = BaselineMembers(n)

\* the implied previous-cycle expiry under the data-shape policy: a missing
\* or non-positive duration counts as 30 days
PolicyPrev(k) ==
    LET d == PlanOf(k).duration_days
    IN  k.expiry_time - (IF IsNone(d) \/ Val(d) <= 0 THEN 30 ELSE Val(d))

\* the subscriptions of the plans named n whose implied previous-cycle
\* expiry under that policy is in [start, end)
PolicyPrevMembers(n) ==
    CountWhere(keys, {k \in DOMAIN keys :
        /\ PlanOf(k).name = n
        /\ FrozenOk(k, flags) /\ TrialOk(k, flags)
        /\ InWindow(PolicyPrev(k))})

\* C18: the month-start baseline derives the implied previous-cycle expiry
\* of a subscription whose plan has a missing or non-positive duration as
\* expiry_time minus 30 days: the previous-cycle source counts, per plan
\* name, exactly the subscriptions whose expiry less the duration (30 when
\* missing) is in [start, end).
C18_MissingDurationIs30 ==
    base.op = "base" =>
        \A n \in PlanNames :
            (IF n \in DOMAIN base.prev_data THEN base.prev_data[n].count ELSE 0)
                = PolicyPrevMembers(n)

----------------------------------------------------------------------------
(* Specification of the retention/churn analyzer over stores of keys and   *)
(* payments                                                                *)

\* Subscriptions of the plans of 30, 10 and no days that expire in the
\* window (day 40) or after it (day 70), and for account 1 a frozen copy of
\* the renewed monthly one.  (A 90-day subscription with these expiries is
\* no candidate.)
RetKeyRows ==
    KeyRows(Accounts, {1, 3, 4}, {40, 70}, {FALSE})
        \cup KeyRows({1}, {1}, {70}, {TRUE})

\* Successful payments of a plan price before the window (day 10) and in
\* it (day 45), and for account 1 a successful payment of an amount no plan
\* has and a failed payment in the window.
RetPaymentRows ==
    PaymentRows(Accounts, {0, 100}, {10, 45}, {"success"})
        \cup PaymentRows({1}, {7}, {10}, {"success"})
        \cup PaymentRows({1}, {100}, {45}, {"failed"})

RetAddKey == AddKey(RetKeyRows)
RetAddPayment == AddPayment(RetPaymentRows)

\* probs and global_prob as calc_kpis passes them on
RetProbs == ("other" :> Frac(1, 4)) @@ ("trial" :> Frac(3, 4))
RetGlobalProb == Some(Frac(1, 2))

Retention ==
    /\ ret = Idle
    /\ \E last_pays \in LastPays(payments), price_to_plan \in PriceToPlanMaps :
          ret' = CalcRetentionChurn(keys, payments, flags, RetProbs,
                                    RetGlobalProb, last_pays, price_to_plan)
    /\ UNCHANGED <<flags, keys, payments, group_code, duration_days, bucket,
                   est, base, fin, data, reply>>

NextRet == RetAddKey \/ RetAddPayment \/ Retention

SpecRet == InitStore /\ [][NextRet]_vars

\* the candidates of account a in a bag of candidate rows
RowsOf(rows, a) == CountWhere(rows, {r \in DOMAIN rows : r.tg_id = a})

\* the subscriptions of account a that the candidate query selects
CandidateKeysOf(a) ==
    CountWhere(keys, {k \in DOMAIN keys :
        k.tg_id = a /\ CandidateKey(k, flags)})

\* C3 as stated: no account identifier appears more than once in the merged
\* candidate set, also when one account holds several subscriptions whose
\* implied previous-cycle expiry falls in [start, end).
C3_NoAccountTwice ==
    ret.op = "ret" => \A a \in Accounts : RowsOf(ret.cand_rows, a) <= 1

\* C3 as amended: the merged candidate set holds one candidate per
\* subscription of the real cohort, so an account appears there once for
\* each such subscription it holds, and an account without one appears at
\* most once (as a single synthetic candidate).
C3_OncePerSubscription ==
    ret.op = "ret" =>
        \A a \in Accounts :
            IF CandidateKeysOf(a) > 0
            THEN RowsOf(ret.cand_rows, a) = CandidateKeysOf(a)
            ELSE RowsOf(ret.cand_rows, a) <= 1

\* One account holds two subscriptions of the cohort and appears twice,
\* the other appears once, as a synthetic candidate.
C3_Witness ==
    /\ ret.op = "ret"
    /\ \E a, b \in Accounts :
        /\ CandidateKeysOf(a) = 2
        /\ RowsOf(ret.cand_rows, a) = 2
        /\ CandidateKeysOf(b) = 0
        /\ RowsOf(ret.fallback, b) = 1
        /\ RowsOf(ret.cand_rows, b) = 1

\* C4: an account that is in the real-subscription cohort contributes no
\* synthetic candidate, whatever its payments, and no account contributes
\* more than one synthetic candidate.
C4_FallbackDedup ==
    ret.op = "ret" =>
        \A a \in Accounts :
            /\ CandidateKeysOf(a) > 0 => RowsOf(ret.fallback, a) = 0
            /\ RowsOf(ret.fallback, a) <= 1

\* An account of the real cohort whose most recent successful payment
\* matches a plan price and, with that plan's duration, lands in the
\* window: it would be admitted but for the dedup, and it is not.
C4_Witness ==
    /\ ret.op = "ret"
    /\ \E a \in Accounts :
        /\ CandidateKeysOf(a) > 0
        /\ \E L \in LastPays(payments), m \in PriceToPlanMaps :
              \E p \in L : p.tg_id = a /\ FallbackAdmittedNoDedup(p, {}, m)
        /\ RowsOf(ret.fallback, a) = 0
        /\ RowsOf(ret.cand_rows, a) = CandidateKeysOf(a)

\* C5: whenever the merged cohort is non-empty, renewed_count +
\* not_renewed_yet is the number of candidates and retention_rate +
\* churn_rate = 1.
C5_Conservation ==
    (ret.op = "ret" /\ ret.cand_rows # EmptyBag) =>
        /\ ret.renewed_count + ret.not_renewed_yet
              = BagCardinality(ret.cand_rows)
        /\ ~IsNone(ret.retention_rate) /\ ~IsNone(ret.churn_rate)
        /\ FEq(FAdd(Val(ret.retention_rate), Val(ret.churn_rate)), FOne)

\* A cohort with a real and a synthetic candidate, one renewed and one not.
C5_Witness ==
    /\ ret.op = "ret"
    /\ ret.real # EmptyBag /\ ret.fallback # EmptyBag
    /\ ret.renewed_count = 1
    /\ ret.not_renewed_yet >= 1
    /\ \E r \in DOMAIN ret.fallback :
          NotRenewedRow(r, PaidInMonthTg(payments))

\* C6: with zero candidates both rates are None and are rendered as a dash,
\* never as 0 or 1, both counts are 0 and predicted_churn is exactly 0.
C6_EmptyCohort ==
    (ret.op = "ret" /\ ret.cand_rows = EmptyBag) =>
        /\ IsNone(ret.retention_rate) /\ IsNone(ret.churn_rate)
        /\ RenderRate(ret.retention_rate) = [shown |-> "dash"]
        /\ RenderRate(ret.churn_rate) = [shown |-> "dash"]
        /\ ret.renewed_count = 0 /\ ret.not_renewed_yet = 0
        /\ ret.predicted_churn = FZero

\* The store holds subscriptions and successful payments, none of them a
\* candidate of the window, and the report has the empty-cohort shape.
C6_Witness ==
    /\ ret.op = "ret"
    /\ ret.cand_rows = EmptyBag
    /\ BagCardinality(keys) = 2
    /\ \E p \in DOMAIN payments : p.status = "success"
    /\ IsNone(ret.retention_rate)

\* C17: with exclude_trials on, no candidate of the merged cohort, real or
\* reconstructed from a payment, is attributed to a plan tagged trial or
\* priced at zero.
C17_NoTrialCandidate ==
    (ret.op = "ret" /\ flags.EXCLUDE_TRIALS) =>
        \A r \in DOMAIN ret.cand_rows :
            r.gcode # "trial" /\ Coalesce(r.price, 0) # 0

\* account a has a successful payment created in [start, end)
PaidInWindow(a) ==
    \E p \in DOMAIN payments :
        p.tg_id = a /\ p.status = "success" /\ InWindow(p.created_at)

\* the candidates not renewed that the classifier puts in bucket b: the
\* real ones with expiry_time < end and the synthetic ones whose account
\* has no successful payment in the window
UnrenewedIn(b) ==
    CountWhere(ret.real, {r \in DOMAIN ret.real :
        Val(r.expiry_ms) < Window.end /\ BucketPlan(r.gcode, r.days) = b})
    + CountWhere(ret.fallback, {r \in DOMAIN ret.fallback :
        ~PaidInWindow(r.tg_id) /\ BucketPlan(r.gcode, r.days) = b})

\* C20: a real candidate is renewed iff its expiry_time >= end, a synthetic
\* one iff its account has a successful payment created in [start, end);
\* every candidate not renewed is counted in exactly one bucket, the one
\* _bucket_plan gives for its plan.
C20_Classification ==
    (ret.op = "ret" /\ ret.cand_rows # EmptyBag) =>
        /\ ret.renewed_count =
              CountWhere(ret.real, {r \in DOMAIN ret.real :
                  Val(r.expiry_ms) >= Window.end})
              + CountWhere(ret.fallback, {r \in DOMAIN ret.fallback :
                  PaidInWindow(r.tg_id)})
        /\ DOMAIN ret.bucket_counts \subseteq Buckets
        /\ \A b \in Buckets :
              (IF b \in DOMAIN ret.bucket_counts
               THEN ret.bucket_counts[b] ELSE 0) = UnrenewedIn(b)
        /\ ret.not_renewed_yet =
              UnrenewedIn("1m") + UnrenewedIn("3m") + UnrenewedIn("12m")
              + UnrenewedIn("other")

\* A renewed real candidate, a real one not renewed on a plan without a
\* duration and a synthetic one not renewed on the monthly plan: the two
\* not renewed are counted under other and 1m.
C20_Witness ==
    /\ ret.op = "ret"
    /\ \E r \in DOMAIN ret.real : Val(r.expiry_ms) >= Window.end
    /\ \E r \in DOMAIN ret.real :
          Val(r.expiry_ms) < Window.end /\ IsNone(r.days)
    /\ \E r \in DOMAIN ret.fallback : ~PaidInWindow(r.tg_id)
    /\ ret.renewed_count = 1
    /\ ret.not_renewed_yet = 2
    /\ ret.bucket_counts = ("other" :> 1) @@ ("1m" :> 1)

\* the display name of the plan a candidate row belongs to (the plans of
\* the model differ in price)
RowPlanName(r) ==
    Plans[CHOOSE id \in PlanIds : PlanPrice(id) = OrElse(r.price, 0)].name

\* the candidates not renewed
Unrenewed(r) ==
    IF IsNone(r.expiry_ms) THEN ~PaidInWindow(r.tg_id)
    ELSE Val(r.expiry_ms) < Window.end

\* the sum over the candidate rows rs of (1 - p), p being the probability
\* the compositor's resolution order gives the candidate's plan
RECURSIVE ChurnByPlan(_, _)
ChurnByPlan(rows, rs) ==
    IF rs = {} THEN FZero
    ELSE LET r == CHOOSE x \in rs : TRUE
             info == [group_code |-> r.gcode,
                      bucket |-> BucketPlan(r.gcode, r.days)]
             pr == FirstExisting(RowPlanName(r), info, RetProbs,
                                 RetGlobalProb)
         IN  FAdd(FMul(FSub(FOne, pr), Frac(rows[r], 1)),
                  ChurnByPlan(rows, rs \ {r}))

\* C21: predicted churn weights every candidate not renewed with
\* 1 - p, p resolved as the compositor resolves it for the candidate's
\* plan: override by plan name, then group_code, then bucket, then the
\* global probability, else 1.
C21_ChurnSameResolution ==
    (ret.op = "ret" /\ ret.cand_rows # EmptyBag) =>
        FEq(ret.predicted_churn,
            ChurnByPlan(ret.cand_rows,
                        {r \in DOMAIN ret.cand_rows : Unrenewed(r)}))

\* the sum over the buckets bs of (1 - p_b) x the bucket's count, p_b being
\* the map's entry under the bucket name, else the global probability,
\* else 1
RECURSIVE ChurnByBucket(_, _)
ChurnByBucket(counts, bs) ==
    IF bs = {} THEN FZero
    ELSE LET b == CHOOSE x \in bs : TRUE
             pb == IF b \in DOMAIN RetProbs THEN RetProbs[b]
                   ELSE IF ~IsNone(RetGlobalProb) THEN Val(RetGlobalProb)
                   ELSE FOne
         IN  FAdd(FMul(FSub(FOne, pb), Frac(counts[b], 1)),
                  ChurnByBucket(counts, bs \ {b}))

\* What the analyzer computes instead: the map is looked up by the bucket
\* name only, so entries under a plan name or a group_code are not
\* consulted, and an entry of 0 under the bucket is used as it is.
ChurnIsByBucket ==
    (ret.op = "ret" /\ ret.cand_rows # EmptyBag) =>
        FEq(ret.predicted_churn,
            ChurnByBucket(ret.bucket_counts, DOMAIN ret.bucket_counts))

\* the successful payments of account a created in the window
PaymentsInWindow(a) ==
    CountWhere(payments, {p \in DOMAIN payments :
        p.tg_id = a /\ p.status = "success" /\ InWindow(p.created_at)})

\* C29: a synthetic candidate is rebuilt from its account's most recent
\* successful payment before end, and counts as renewed only on a payment
\* other than that one: never when that payment lies before start, and
\* when it lies in [start, end) only if the account has a second
\* successful payment in [start, end).
C29_OtherPaymentRenews ==
    (ret.op = "ret" /\ ret.cand_rows # EmptyBag) =>
        ret.renewed_count <=
            CountWhere(ret.real, {r \in DOMAIN ret.real :
                Val(r.expiry_ms) >= Window.end})
            + CountWhere(ret.fallback, {r \in DOMAIN ret.fallback :
                PaymentsInWindow(r.tg_id) >= 2})

----------------------------------------------------------------------------
(* Specification of the compositor: the query results and the settings     *)
(* _render_summary reads are drawn from bounded sets and Compose derives   *)
(* the figures from them.                                                  *)

MaxCount == 2

\* the entries a snapshot may hold under a plan name
SnapshotEntries(n) ==
    {PlanEntry(id, c) : id \in {i \in PlanIds : Plans[i].name = n},
                        c \in 1..MaxCount}

FcNames == {"M", "Q"}
Snapshots ==
    UNION {[names -> UNION {SnapshotEntries(n) : n \in names}] :
              names \in SUBSET FcNames}
SnapshotOk(x) == \A n \in DOMAIN x : x[n] \in SnapshotEntries(n)

Amounts == {FZero, Frac(50, 1), Frac(1000, 1)}
Recognized == {FZero, Frac(1000, 1)}
OverrideSets ==
    {<<>>,
     ("M" :> FZero) @@ ("3m" :> Frac(1, 2)),
     ("1m" :> FOne) @@ ("other" :> Frac(1, 4))}
GlobalProbs == {None, Some(FZero), Some(Frac(1, 2))}
Estimated ==
    ("1m" :> Frac(2, 3)) @@ ("3m" :> FOne) @@ ("12m" :> FOne) @@
    ("other" :> Frac(1, 3))

InitForecast ==
    /\ flags = [SKIP_FROZEN |-> FALSE, EXCLUDE_TRIALS |-> FALSE]
    /\ keys = EmptyBag
    /\ payments = EmptyBag
    /\ group_code = NoCode
    /\ duration_days = None
    /\ bucket = NoCode
    /\ est = Idle
    /\ base = Idle
    /\ ret = Idle
    /\ \E e \in Snapshots, b \in Snapshots, r \in Amounts, a \in Recognized,
          o \in OverrideSets, g \in GlobalProbs, m \in Modes :
        /\ SnapshotOk(e) /\ SnapshotOk(b)
        /\ DOMAIN e \subseteq DOMAIN b
        /\ fin = [op |-> "queries",
                  expiring |-> e,
                  baseline_expiring |-> b,
                  received |-> r,
                  recognized_total |-> a,
                  estimated |-> Estimated,
                  PLAN_PROB_OVERRIDES |-> o,
                  RENEWAL_PROBABILITY |-> g,
                  COMPLETION_MODE |-> m]
    /\ data = Idle
    /\ reply = Idle

Compose ==
    /\ fin # Idle
    /\ data = Idle
    /\ data' = SummaryFigures(fin, fin)
    /\ UNCHANGED <<flags, keys, payments, group_code, duration_days, bucket,
                   est, base, ret, fin, reply>>

NextForecast == Compose

SpecForecast == InitForecast /\ [][NextForecast]_vars

\* C7: to_earn = max(0, forecast - received), so to_earn >= 0 also when
\* received > forecast; and plan_gap >= 0 in every completion mode and
\* when plan_baseline = 0.
C7_NonNegative ==
    data.op = "summary" =>
        /\ FLe(FZero, data.to_earn)
        /\ FLe(data.forecast, data.received) => FEq(data.to_earn, FZero)
        /\ FLe(data.received, data.forecast) =>
              FEq(FAdd(data.to_earn, data.received), data.forecast)
        /\ FLe(FZero, data.plan_gap)
        /\ FEq(data.plan_baseline, FZero) => FEq(data.plan_gap, FZero)

\* More was received than the forecast and than the baseline, which is not
\* zero, in cash mode: both differences are negative and both figures 0.
C7_Witness ==
    /\ data.op = "summary"
    /\ fin.COMPLETION_MODE = "cash"
    /\ FLt(FZero, data.forecast)
    /\ FLt(data.forecast, data.received)
    /\ FLt(FZero, data.plan_baseline)
    /\ FLt(data.plan_baseline, data.received)
    /\ FEq(data.to_earn, FZero)
    /\ FEq(data.plan_gap, FZero)

\* the sum of the expected values of the plans names of by_plans
RECURSIVE SumExpected(_, _)
SumExpected(by_plans, names) ==
    IF names = {} THEN FZero
    ELSE LET n == CHOOSE x \in names : TRUE
         IN  FAdd(by_plans[n].expected, SumExpected(by_plans, names \ {n}))

\* C12: for every plan of the snapshot the probability used is the override
\* under the plan name if one exists, whatever its value (0 included), else
\* the one under its group_code, else the one under its bucket, else the
\* global probability if given, else 1; expected = price x count x that
\* probability and forecast is the sum of the expected values.
C12_ProbResolution ==
    data.op = "summary" =>
        /\ \A n \in DOMAIN fin.expiring :
              LET info == fin.expiring[n]
                  want == FirstExisting(n, info, data.probs_to_use,
                                        data.global_p)
              IN  /\ FEq(data.by_plans[n].prob, want)
                  /\ FEq(data.by_plans[n].expected,
                         FMul(Frac(info.price * info.count, 1), want))
        /\ FEq(data.forecast, SumExpected(data.by_plans, DOMAIN data.by_plans))

----------------------------------------------------------------------------
(* Specification of report generation: a request of the forecast screen    *)
(* over a store of keys and payments, under each configuration; any of    *)
(* its store queries may fail.                                             *)

\* subscriptions of one account on the two plans named M, expiring in the
\* window or after it, and payments of the monthly price before and in it
ReportKeyRows == KeyRows({1}, {1, 3}, {40, 70}, {FALSE})
ReportPaymentRows == PaymentRows({1}, {100}, {10, 45}, {"success"})

ReportAddKey == AddKey(ReportKeyRows)
ReportAddPayment == AddPayment(ReportPaymentRows)

ReportOverrides == {<<>>, ("M" :> FZero) @@ ("3m" :> Frac(1, 2))}

\* (no subscription of these rows is frozen, so skip_frozen stays off)
InitReport ==
    /\ flags \in {f \in FlagSets : ~f.SKIP_FROZEN}
    /\ keys = EmptyBag
    /\ payments = EmptyBag
    /\ group_code = NoCode
    /\ duration_days = None
    /\ bucket = NoCode
    /\ est = Idle
    /\ base = Idle
    /\ ret = Idle
    /\ \E o \in ReportOverrides, g \in GlobalProbs, m \in Modes :
          fin = [op |-> "settings",
                 PLAN_PROB_OVERRIDES |-> o,
                 RENEWAL_PROBABILITY |-> g,
                 COMPLETION_MODE |-> m]
    /\ data = Idle
    /\ reply = Idle

\* One request: the handler runs _render_summary over the store.
Report ==
    /\ reply = Idle
    /\ \E o \in Orders(ExpiringPlans(keys, flags)),
          ocur \in Orders(ExpiringPlans(keys, flags)),
          oprev \in Orders(PrevPlans(keys, flags)),
          last_pays \in LastPays(payments),
          price_to_plan \in PriceToPlanMaps :
        LET q == [expiring |-> GetExpiringByPlan(keys, flags, o),
                  baseline_expiring |->
                      GetBaselineExpiringByPlan(keys, flags, ocur,
                                                oprev).merged,
                  received |-> GetReceived(payments),
                  recognized_total |->
                      GetRecognizedRevenueAccrual(keys, flags),
                  estimated |-> EstimateAutoRenewalProbs(keys, flags).probs]
            figures == SummaryFigures(q, fin)
            metrics == CalcRetentionChurn(keys, payments, flags,
                                          figures.probs_to_use,
                                          figures.global_p,
                                          last_pays, price_to_plan)
            d == ReportData(figures, metrics)
            queries == ReportQueries(fin, figures.plan_baseline,
                                     BagCardinality(metrics.cand_rows))
        IN  \E fail_at \in 0..Len(queries) :
                /\ reply' = OpenForecast(RenderSummary(queries, fail_at, d))
                /\ data' = IF fail_at = 0 THEN d ELSE Idle
    /\ UNCHANGED <<flags, keys, payments, group_code, duration_days, bucket,
                   est, base, ret, fin>>

NextReport == ReportAddKey \/ ReportAddPayment \/ Report

SpecReport == InitReport /\ [][NextReport]_vars

\* the estimator is among the queries the request issued
EstimatorCalled ==
    \E i \in 1..Len(reply.issued) : reply.issued[i] = "estimator"

\* an override map or a global probability is configured
Configured ==
    fin.PLAN_PROB_OVERRIDES # <<>> \/ ~IsNone(fin.RENEWAL_PROBABILITY)

\* C13: the estimator is queried and used if and only if neither an
\* override map nor a global probability is configured: when either is, no
\* request issues the estimator query and the probabilities handed to the
\* compositor are the configured map and global value; when neither is,
\* every request that gets past the received query issues it next and the
\* report uses the four learned bucket probabilities and no global value.
C13_EstimatorBypass ==
    reply.op = "handled" =>
        /\ Configured => ~EstimatorCalled
        /\ (~Configured /\ Len(reply.issued) >= 5) =>
              reply.issued[5] = "estimator"
        /\ (Configured /\ reply.failed_at = 0) =>
              /\ data.probs_to_use = fin.PLAN_PROB_OVERRIDES
              /\ data.global_p = fin.RENEWAL_PROBABILITY
        /\ (~Configured /\ reply.failed_at = 0) =>
              /\ DOMAIN data.probs_to_use = Buckets
              /\ IsNone(data.global_p)

\* Only a global probability is configured and a subscription expires in
\* the window: the report is produced without the estimator query and the
\* plan's probability is the global one.
C13_Witness ==
    /\ reply.op = "handled"
    /\ reply.failed_at = 0
    /\ fin.PLAN_PROB_OVERRIDES = <<>>
    /\ fin.RENEWAL_PROBABILITY = Some(Frac(1, 2))
    /\ ~EstimatorCalled
    /\ "M" \in DOMAIN data.by_plans
    /\ data.by_plans["M"].prob = Frac(1, 2)

\* C15: when plan_baseline = 0, in every completion mode the completion
\* percentage is None and is rendered as a dash, never as 0, and the report
\* is produced: the message is edited and no error is answered or raised.
C15_ZeroBaseline ==
    (reply.op = "handled" /\ reply.failed_at = 0
        /\ FEq(data.plan_baseline, FZero)) =>
        /\ IsNone(data.plan_completion_pct)
        /\ ~IsNone(reply.edit_text)
        /\ Val(reply.edit_text).completion = [shown |-> "dash"]
        /\ IsNone(reply.answer)
        /\ ~reply.raised

\* Accrual mode with a global probability of 0: a subscription expires in
\* the window, the baseline is 0 all the same and the report shows a dash.
C15_Witness ==
    /\ reply.op = "handled"
    /\ reply.failed_at = 0
    /\ fin.COMPLETION_MODE = "accrual"
    /\ "M" \in DOMAIN data.by_plans
    /\ FEq(data.plan_baseline, FZero)
    /\ Val(reply.edit_text).completion = [shown |-> "dash"]

\* C19: if a store query of the request fails, at whatever position, the
\* message is not edited, no figures are produced, the handler answers the
\* error text and no exception leaves it; the message is only edited after
\* the last query.
C19_StoreFailure ==
    reply.op = "handled" =>
        /\ ~reply.raised
        /\ reply.failed_at # 0 =>
              /\ IsNone(reply.edit_text)
              /\ data = Idle
              /\ reply.answer = Some("ERROR")
        /\ ~IsNone(reply.edit_text) =>
              /\ reply.failed_at = 0
              /\ reply.issued[Len(reply.issued)] = "mrr_active"

\* The last query of the request, the one of the active-base MRR, fails
\* after every other figure of a non-empty store was computed.
C19_Witness ==
    /\ reply.op = "handled"
    /\ keys # EmptyBag /\ payments # EmptyBag
    /\ reply.failed_at = Len(reply.issued)
    /\ reply.issued[reply.failed_at] = "mrr_active"
    /\ IsNone(reply.edit_text)
    /\ reply.answer = Some("ERROR")

----------------------------------------------------------------------------
(* Specification of the classifier alone: the arguments are drawn from     *)
(* bounded sets and Classify applies _bucket_plan to them.                 *)

MaxDays == 420
MinDays == 0 - 60
GroupCodes == {NoCode, "1m", "3m", "12m", "trial", "vip"}
DayArgs == {None} \cup {Some(d) : d \in MinDays..MaxDays}

InitBucket ==
    /\ flags = [SKIP_FROZEN |-> FALSE, EXCLUDE_TRIALS |-> FALSE]
    /\ keys = EmptyBag
    /\ payments = EmptyBag
    /\ group_code \in GroupCodes
    /\ duration_days \in DayArgs
    /\ bucket = NoCode
    /\ est = Idle
    /\ base = Idle
    /\ ret = Idle
    /\ fin = Idle
    /\ data = Idle
    /\ reply = Idle

Classify ==
    /\ bucket = NoCode
    /\ bucket' = BucketPlan(group_code, duration_days)
    /\ UNCHANGED <<flags, keys, payments, group_code, duration_days,
                   est, base, ret, fin, data, reply>>

\* CTE plans and prepared of the estimator for a subscription of the same
\* plan: COALESCE(duration_days, 30), then the CASE over the duration
PreparedBucket(days) == SqlBucket(Coalesce(days, 30))

Prepare ==
    /\ est = Idle
    /\ est' = [op |-> "prepared", bucket |-> PreparedBucket(duration_days)]
    /\ UNCHANGED <<flags, keys, payments, group_code, duration_days, bucket,
                   base, ret, fin, data, reply>>

NextBucket == Classify \/ Prepare

SpecBucket == InitBucket /\ [][NextBucket]_vars

\* C10: _bucket_plan is total: every (group_code, duration_days), absent,
\* zero and negative durations included, gets one of 1m, 3m, 12m, other; a
\* group_code of exactly 1m, 3m or 12m is returned whatever the duration;
\* otherwise the result follows months = round(duration_days / 30), stated
\* here by the day ranges that round to 1, to 3 and to 10..13 under
\* round-half-to-even: 1m for 16..44 days, 3m for 76..104 days, 12m for
\* 285..404 days, else other.
C10_BucketTotal ==
    bucket # NoCode =>
        /\ bucket \in Buckets
        /\ group_code \in {"1m", "3m", "12m"} => bucket = group_code
        /\ group_code \notin {"1m", "3m", "12m"} =>
             LET d == Coalesce(duration_days, 0)
             IN  /\ (bucket = "1m") <=> (16 <= d /\ d <= 44)
                 /\ (bucket = "3m") <=> (76 <= d /\ d <= 104)
                 /\ (bucket = "12m") <=> (285 <= d /\ d <= 404)

\* The spec's example: classify("1m", 97) = "1m" although 97 days alone
\* round to 3 months.
C10_Witness ==
    /\ group_code = "1m"
    /\ duration_days = Some(97)
    /\ bucket = "1m"

\* C11: the bucket under which the historical cohort query counts the
\* subscriptions of a plan equals the bucket _bucket_plan assigns to that
\* plan, for every (group_code, duration_days).
C11_SameBucket ==
    (bucket # NoCode /\ est.op = "prepared") => est.bucket = bucket

\* the subscriptions whose billing cycle ended in the month before the
\* report was generated and has not been renewed: expiry_time in
\* [start, now), the policy switches applied
EndedCycle(k) ==
    /\ k.expiry_time >= Window.start
    /\ k.expiry_time < Window.now
    /\ FrozenOk(k, flags)
    /\ TrialOk(k, flags)

\* C23: a subscription whose billing cycle ended in the month before the
\* report and that is not paid for until the next month has its plan price
\* in the accrual-recognized revenue of the month (accrual-mode completion
\* times the baseline is at least the prices of those subscriptions), while
\* cash-mode completion counts exactly the successful payments created in
\* the month.
C23_AccrualNotCash ==
    (data.op = "summary" /\ FLt(FZero, data.plan_baseline)) =>
        LET pct == FNorm(Val(data.plan_completion_pct))
            base_sum == FNorm(data.plan_baseline)
            owed == SumPrices(keys, {k \in DOMAIN keys : EndedCycle(k)})
            paid == SumAmounts(payments, {p \in DOMAIN payments :
                        p.status = "success" /\ InWindow(p.created_at)})
        IN  /\ fin.COMPLETION_MODE = "accrual" =>
                FLe(Frac(owed * 100, 1), FMul(pct, base_sum))
            /\ fin.COMPLETION_MODE = "cash" =>
                FEq(FMul(pct, base_sum), Frac(paid * 100, 1))

(* Specification of the report request over stores in which several       *)
(* subscriptions on plans of one display name expire in the month.         *)

MaxSameName == 3
SameNameRows == KeyRows({1}, {1, 3}, {40}, {FALSE})

InitSameName ==
    /\ flags = [SKIP_FROZEN |-> FALSE, EXCLUDE_TRIALS |-> FALSE]
    /\ \E c \in [SameNameRows -> 0..MaxSameName] :
           keys = [r \in {x \in SameNameRows : c[x] > 0} |-> c[r]]
    /\ payments = EmptyBag
    /\ group_code = NoCode
    /\ duration_days = None
    /\ bucket = NoCode
    /\ est = Idle
    /\ base = Idle
    /\ ret = Idle
    /\ \E o \in ReportOverrides, g \in GlobalProbs, m \in Modes :
           fin = [op |-> "settings", PLAN_PROB_OVERRIDES |-> o,
                  RENEWAL_PROBABILITY |-> g, COMPLETION_MODE |-> m]
    /\ data = Idle
    /\ reply = Idle

NextSameName == Report

SpecSameName == InitSameName /\ [][NextSameName]_vars

\* C28: the live forecast of the current-month snapshot is at most
\* plan_baseline, the forecast of the month-start baseline snapshot under
\* the same probabilities, plans that share a display name included; so
\* in plan_vs_forecast mode plan_gap is at most plan_baseline.
C28_BaselineDominates ==
    data.op = "summary" =>
        /\ FLe(FNorm(data.forecast), FNorm(data.plan_baseline))
        /\ fin.COMPLETION_MODE = "plan_vs_forecast" =>
              FLe(FNorm(data.plan_gap), FNorm(data.plan_baseline))

----------------------------------------------------------------------------
(* KPI aggregator: calc_kpis and _calc_mrr_active_base                     *)

\* q_pay: the sum and the number of the successful payments created in
\* [dt_start, dt_end)
PaidRows(P) ==
    {p \in DOMAIN P : p.status = "success" /\ InWindow(p.created_at)}
PaidSum(P) == SumAmounts(P, PaidRows(P))
PaidCount(P) == CountWhere(P, PaidRows(P))

\* (paid_sum / n) if n > 0 else 0.0: avg_check and arpu
Ratio(paid_sum, n) == IF n > 0 THEN Frac(paid_sum, n) ELSE FZero

\* q_active: count(distinct tg_id) of the keys created up to dt_end and
\* expiring from dt_start on; is_frozen IS FALSE under SKIP_FROZEN only
ActiveUsers(K, f) ==
    Cardinality({k.tg_id : k \in {x \in DOMAIN K :
                    /\ x.created_at <= Window.end
                    /\ x.expiry_time >= Window.start
                    /\ FrozenOk(x, f)}})

\* months = round((duration or 0) / 30) if duration else 1;
\* months = months if months and months > 0 else 1
MrrMonths(duration) ==
    LET months == IF IsNone(duration) \/ Val(duration) = 0 THEN 1
                  ELSE PyRoundDiv(Val(duration), 30)
    IN  IF months > 0 THEN months ELSE 1

\* WHERE expiry_time > now_ms, and the two policy filters
MrrKey(k, f) ==
    /\ k.expiry_time > Window.now
    /\ FrozenOk(k, f)
    /\ TrialOk(k, f)

\* mrr_active += float(price or 0.0) / months * int(count or 0)
RECURSIVE SumMonthly(_, _)
SumMonthly(K, rows) ==
    IF rows = {} THEN FZero
    ELSE LET k == CHOOSE x \in rows : TRUE
             pl == PlanOf(k)
         IN  FAdd(Frac(OrElse(pl.price_rub, 0) * K[k],
                       MrrMonths(pl.duration_days)),
                  SumMonthly(K, rows \ {k}))

CalcMrrActiveBase(K, f) == SumMonthly(K, {k \in DOMAIN K : MrrKey(k, f)})

\* calc_kpis: the KPIs and the retention block in one dictionary
CalcKpis(K, P, f, retention_block) ==
    [op |-> "kpis",
     avg_check |-> Ratio(PaidSum(P), PaidCount(P)),
     paid_count |-> PaidCount(P),
     active_users |-> ActiveUsers(K, f),
     arpu |-> Ratio(PaidSum(P), ActiveUsers(K, f)),
     mrr_active |-> CalcMrrActiveBase(K, f)] @@ retention_block

(* Specification of the KPI aggregator over the store; the result is kept  *)
(* in ret, since it extends the retention block.                           *)

KpiKeyRows ==
    [tg_id : Accounts, tariff_id : {2, 3}, expiry_time : {40, 70},
     is_frozen : {FALSE}, created_at : {20}]
    \cup [tg_id : {1}, tariff_id : {1, 4}, expiry_time : {70},
          is_frozen : {FALSE}, created_at : {20}]
    \cup [tg_id : {1}, tariff_id : {2}, expiry_time : {70},
          is_frozen : {TRUE}, created_at : {20}]

KpiPaymentRows ==
    PaymentRows({1}, {100}, {10, 45}, {"success"})
    \cup PaymentRows({1}, {100}, {45}, {"failed"})

KpiAddKey == AddKey(KpiKeyRows)
KpiAddPayment == AddPayment(KpiPaymentRows)

Kpis ==
    /\ ret = Idle
    /\ \E last_pays \in LastPays(payments), price_to_plan \in PriceToPlanMaps :
          ret' = CalcKpis(keys, payments, flags,
                          CalcRetentionChurn(keys, payments, flags, RetProbs,
                                             RetGlobalProb, last_pays,
                                             price_to_plan))
    /\ UNCHANGED <<flags, keys, payments, group_code, duration_days, bucket,
                   est, base, fin, data, reply>>

NextKpi == KpiAddKey \/ KpiAddPayment \/ Kpis

SpecKpi == InitStore /\ [][NextKpi]_vars

\* price / max(1, round(duration_days / 30)), a missing duration taken as
\* 30 days, summed over the rows
RECURSIVE RunRate(_, _)
RunRate(K, rows) ==
    IF rows = {} THEN FZero
    ELSE LET k == CHOOSE x \in rows : TRUE
             pl == PlanOf(k)
             r == PyRoundDiv(Coalesce(pl.duration_days, 30), 30)
         IN  FAdd(Frac(Coalesce(pl.price_rub, 0) * K[k],
                       IF r > 1 THEN r ELSE 1),
                  RunRate(K, rows \ {k}))

\* C24: mrr_active is the sum over all the subscriptions with expiry_time >
\* now, whatever the policy switches, of price / max(1, round(duration_days
\* / 30)); avg_check is 0 without a successful payment in the month and
\* arpu is 0 without an active user.
C24_MrrAllActive ==
    ret.op = "kpis" =>
        /\ FEq(ret.mrr_active,
               RunRate(keys, {k \in DOMAIN keys :
                                 k.expiry_time > Window.now}))
        /\ ret.paid_count = 0 => FEq(ret.avg_check, FZero)
        /\ ret.active_users = 0 => FEq(ret.arpu, FZero)

\* What holds of the two ratios: 0 with a zero divisor, the quotient of
\* the month's successful payments otherwise.
KpiRatios ==
    ret.op = "kpis" =>
        /\ ret.paid_count = 0 => FEq(ret.avg_check, FZero)
        /\ ret.active_users = 0 => FEq(ret.arpu, FZero)
        /\ ret.paid_count > 0 =>
             FEq(ret.avg_check, Frac(PaidSum(payments), ret.paid_count))
        /\ ret.active_users > 0 =>
             FEq(ret.arpu, Frac(PaidSum(payments), ret.active_users))

----------------------------------------------------------------------------
(* Concurrent report requests.  The handlers are coroutines of one event   *)
(* loop: a request runs without interruption from one await to the next    *)
(* and another request may run at each await.  The module globals          *)
(* KeyModel, PlanModel, PaymentModel are the only state the requests       *)
(* share: they hold the imported models, or None after a failed import     *)
(* until _get_models has reflected the tables.                             *)

NoModel == "None"
NoModels == <<NoModel, NoModel, NoModel>>
ImportedModels == <<"Key", "Tariff", "Payment">>
ReflectedTables == <<"keys", "tariffs", "payments">>

\* if KeyModel and PlanModel and PaymentModel
ModelsCached(models) == \A j \in 1..3 : models[j] # NoModel

\* A mutant of the assignment: only the first global is stored before the
\* coroutine is suspended.
AssignModelsFirstOnly(models, tables) == <<tables[1], models[2], models[3]>>

\* KeyModel, PlanModel, PaymentModel = await _reflect_tables(session): the
\* three globals are stored after the await, with no await between them
AssignModels(models, tables) == tables

\* the settings of the requests: a global probability, cash completion
ReentSettings ==
    [op |-> "settings", PLAN_PROB_OVERRIDES |-> <<>>,
     RENEWAL_PROBABILITY |-> Some(Frac(1, 2)), COMPLETION_MODE |-> "cash"]

\* the awaited steps of _render_summary under these settings, in order
ReentQueries == <<"expiring", "baseline", "received", "kpis">>

\* what the step number n can add to the results q gathered so far, read
\* from the store K, P with the switches f
QueryResults(n, q, K, P, f) ==
    IF n = 1
    THEN {[expiring |-> GetExpiringByPlan(K, f, o)] :
             o \in Orders(ExpiringPlans(K, f))}
    ELSE IF n = 2
    THEN {q @@ [baseline_expiring |->
                    GetBaselineExpiringByPlan(K, f, ocur, oprev).merged] :
             ocur \in Orders(ExpiringPlans(K, f)),
             oprev \in Orders(PrevPlans(K, f))}
    ELSE IF n = 3
    THEN {q @@ [received |-> GetReceived(P), recognized_total |-> FZero,
                estimated |-> <<>>]}
    ELSE {ReportData(SummaryFigures(q, ReentSettings),
                     CalcRetentionChurn(K, P, f,
                         ProbsToUse(ReentSettings, q.estimated),
                         GlobalP(ReentSettings), last_pays, price_to_plan)) :
             last_pays \in LastPays(P), price_to_plan \in PriceToPlanMaps}

Requests == {1, 2}

\* a request that has not started
NewRequest ==
    [pc |-> 1, reflecting |-> FALSE, returned |-> NoModels, q |-> <<>>,
     reflected |-> FALSE]

ReentKeySets == SUBSET KeyRows({1}, {1, 3}, {40}, {FALSE})
ReentPaymentSets == SUBSET PaymentRows({1}, {100}, {45}, {"success"})

InitReent ==
    /\ flags = [SKIP_FROZEN |-> FALSE, EXCLUDE_TRIALS |-> FALSE]
    /\ \E S \in ReentKeySets : keys = SetToBag(S)
    /\ \E S \in ReentPaymentSets : payments = SetToBag(S)
    /\ group_code = NoCode
    /\ duration_days = None
    /\ bucket = NoCode
    /\ est = Idle
    /\ base = Idle
    /\ ret = Idle
    /\ \E models \in {ImportedModels, NoModels} :
           fin = [op |-> "module", models |-> models]
    /\ data = [i \in Requests |-> NewRequest]
    /\ reply = Idle

Running(i) == data[i].pc \in 1..Len(ReentQueries)

\* _get_models finds a global unset and awaits _reflect_tables
GetModels(i) ==
    /\ Running(i)
    /\ ~data[i].reflecting
    /\ data[i].returned = NoModels
    /\ ~ModelsCached(fin.models)
    /\ data' = [data EXCEPT ![i].reflecting = TRUE]
    /\ UNCHANGED <<flags, keys, payments, group_code, duration_days, bucket,
                   est, base, ret, fin, reply>>

\* _reflect_tables returns: the globals are assigned and returned
Reflected(i) ==
    /\ data[i].reflecting
    /\ fin' = [fin EXCEPT !.models = AssignModels(fin.models, ReflectedTables)]
    /\ data' = [data EXCEPT ![i].reflecting = FALSE,
                            ![i].returned = fin'.models,
                            ![i].reflected = TRUE]
    /\ UNCHANGED <<flags, keys, payments, group_code, duration_days, bucket,
                   est, base, ret, reply>>

\* _reflect_tables raises: the error is logged and raised again, the
\* globals are left as they were and the request ends (pc 0)
ReflectFails(i) ==
    /\ data[i].reflecting
    /\ data' = [data EXCEPT ![i].reflecting = FALSE, ![i].pc = 0]
    /\ UNCHANGED <<flags, keys, payments, group_code, duration_days, bucket,
                   est, base, ret, fin, reply>>

\* the query of the step is executed with the models _get_models returned
\* (the cached ones, or the ones just reflected) and its rows are read
Execute(i) ==
    /\ Running(i)
    /\ ~data[i].reflecting
    /\ ModelsCached(fin.models) \/ data[i].returned # NoModels
    /\ \E r \in QueryResults(data[i].pc, data[i].q, keys, payments, flags) :
          data' = [data EXCEPT ![i].pc = @ + 1,
                               ![i].q = r,
                               ![i].returned = NoModels]
    /\ UNCHANGED <<flags, keys, payments, group_code, duration_days, bucket,
                   est, base, ret, fin, reply>>

NextReent ==
    \E i \in Requests :
        GetModels(i) \/ Reflected(i) \/ ReflectFails(i) \/ Execute(i)

SpecReent == InitReent /\ [][NextReent]_vars

Done(i) == data[i].pc = Len(ReentQueries) + 1

\* the figures a request running alone can produce on the store
LoneFigures ==
    UNION {UNION {UNION {QueryResults(4, q3, keys, payments, flags) :
                    q3 \in QueryResults(3, q2, keys, payments, flags)} :
                q2 \in QueryResults(2, q1, keys, payments, flags)} :
           q1 \in QueryResults(1, <<>>, keys, payments, flags)}

\* every request that has finished holds figures of a request run alone,
\* and the globals are all unset or all set, as is every triple returned
ReentState ==
    /\ \A i \in Requests : Done(i) => data[i].q \in LoneFigures
    /\ fin.models = NoModels \/ ModelsCached(fin.models)
    /\ \A i \in Requests :
          data[i].returned = NoModels \/ ModelsCached(data[i].returned)

\* C25: a report request only reads the store, two requests interleaved at
\* their awaits each produce figures that a request running alone produces
\* on the same store content, and the cached model triple is never seen
\* set in part.
C25_Reentrant ==
    /\ []ReentState
    /\ [][keys' = keys /\ payments' = payments /\ flags' = flags]_vars

\* Both requests found the globals unset, reflected the tables one after
\* the other while the other one was suspended, and finished over a store
\* with two subscriptions.
C25_Witness ==
    /\ \A i \in Requests : Done(i) /\ data[i].reflected
    /\ BagCardinality(keys) = 2
    /\ \A i \in Requests : data[i].q \in LoneFigures
    /\ ModelsCached(fin.models)

----------------------------------------------------------------------------
(* Consent manager (src/modules/privacy_analytics/privacy/                 *)
(* consent_manager.py).  The manager is kept in data: the dictionary       *)
(* consents with the order of its keys, the history list and the clock;    *)
(* reply holds the last call with the manager as it was before the call.   *)
(* Instants are counted in days.                                           *)

\* _load_consent_templates: retention_period and withdrawable of a purpose
ConsentTemplates ==
    [analytics |-> [retention_period |-> 365, withdrawable |-> TRUE],
     monitoring |-> [retention_period |-> 90, withdrawable |-> FALSE],
     security |-> [retention_period |-> 180, withdrawable |-> FALSE],
     business_analytics |-> [retention_period |-> 730, withdrawable |-> TRUE]]

\* self.consent_templates.get(purpose.value, {})
TemplateOf(purpose) ==
    IF purpose \in DOMAIN ConsentTemplates THEN ConsentTemplates[purpose]
    ELSE <<>>

\* template.get("withdrawable", True)
Withdrawable(template) ==
    IF "withdrawable" \in DOMAIN template THEN template.withdrawable ELSE TRUE

\* consent_<subject>_<purpose>_<timestamp>
ConsentId(subject_id, purpose, now) == <<subject_id, purpose, now>>

\* create_consent
CreateConsent(m, subject_id, purpose) ==
    LET id == ConsentId(subject_id, purpose, m.now)
        template == TemplateOf(purpose)
        consent ==
            [subject_id |-> subject_id,
             purpose |-> purpose,
             status |-> "given",
             expires_at |->
                 IF "retention_period" \in DOMAIN template
                 THEN Some(m.now + template.retention_period) ELSE None,
             template |-> template]
    IN  [result |-> id,
         consents |-> (id :> consent) @@ m.consents,
         ids |-> IF id \in DOMAIN m.consents THEN m.ids
                 ELSE Append(m.ids, id),
         history |-> Append(m.history,
                            [action |-> "created", consent_id |-> id])]

\* A mutant of withdraw_consent without the test of the template.
WithdrawConsentAnyTemplate(m, consent_id) ==
    IF consent_id \notin DOMAIN m.consents
    THEN [result |-> FALSE, consents |-> m.consents, ids |-> m.ids,
          history |-> m.history]
    ELSE [result |-> TRUE,
          consents |-> [m.consents EXCEPT ![consent_id].status = "withdrawn"],
          ids |-> m.ids,
          history |-> Append(m.history, [action |-> "withdrawn",
                                         consent_id |-> consent_id])]

\* withdraw_consent
WithdrawConsent(m, consent_id) ==
    IF consent_id \notin DOMAIN m.consents
    THEN [result |-> FALSE, consents |-> m.consents, ids |-> m.ids,
          history |-> m.history]
    ELSE IF ~Withdrawable(m.consents[consent_id].template)
    THEN [result |-> FALSE, consents |-> m.consents, ids |-> m.ids,
          history |-> m.history]
    ELSE [result |-> TRUE,
          consents |-> [m.consents EXCEPT ![consent_id].status = "withdrawn"],
          ids |-> m.ids,
          history |-> Append(m.history, [action |-> "withdrawn",
                                         consent_id |-> consent_id])]

\* the loop of check_consent over active_consents: a consent past its
\* expiry is marked expired and skipped, the first other one answers True
RECURSIVE CheckLoop(_, _, _, _)
CheckLoop(consents, active, i, now) ==
    IF i > Len(active) THEN [result |-> FALSE, consents |-> consents]
    ELSE LET c == consents[active[i]]
         IN  IF ~IsNone(c.expires_at) /\ now > Val(c.expires_at)
             THEN CheckLoop([consents EXCEPT ![active[i]].status = "expired"],
                            active, i + 1, now)
             ELSE [result |-> TRUE, consents |-> consents]

\* check_consent(subject_id, purpose, check_expiry=True)
CheckConsent(m, subject_id, purpose) ==
    LET IsActive(id) ==
            /\ m.consents[id].subject_id = subject_id
            /\ m.consents[id].purpose = purpose
            /\ m.consents[id].status = "given"
        r == CheckLoop(m.consents, SelectSeq(m.ids, IsActive), 1, m.now)
    IN  [result |-> r.result, consents |-> r.consents, ids |-> m.ids,
         history |-> m.history]

(* Specification of the consent manager                                    *)

MaxConsents == 2
MaxHistory == 3
Subjects == {"user123"}
ConsentPurposes == {"analytics", "monitoring", "marketing"}
ConsentTimes == <<0, 400>>
ConsentIds ==
    {ConsentId(u, p, ConsentTimes[i]) :
        u \in Subjects, p \in ConsentPurposes, i \in 1..Len(ConsentTimes)}

\* the manager after a call that returned r, and the record of the call
After(m, r) ==
    [op |-> "manager", consents |-> r.consents, ids |-> r.ids,
     history |-> r.history, now |-> m.now, tick |-> m.tick]
Called(name, m, args, r) ==
    [op |-> name, args |-> args, result |-> r.result, before |-> m]

InitConsent ==
    /\ flags = [SKIP_FROZEN |-> FALSE, EXCLUDE_TRIALS |-> FALSE]
    /\ keys = EmptyBag
    /\ payments = EmptyBag
    /\ group_code = NoCode
    /\ duration_days = None
    /\ bucket = NoCode
    /\ est = Idle
    /\ base = Idle
    /\ ret = Idle
    /\ fin = Idle
    /\ data = [op |-> "manager", consents |-> <<>>, ids |-> <<>>,
               history |-> <<>>, now |-> ConsentTimes[1], tick |-> 1]
    /\ reply = Idle

Create ==
    /\ Len(data.ids) < MaxConsents
    /\ Len(data.history) < MaxHistory
    /\ \E u \in Subjects, p \in ConsentPurposes :
          LET r == CreateConsent(data, u, p)
          IN  /\ data' = After(data, r)
              /\ reply' = Called("create_consent", data, <<u, p>>, r)
    /\ UNCHANGED <<flags, keys, payments, group_code, duration_days, bucket,
                   est, base, ret, fin>>

Withdraw ==
    /\ Len(data.history) < MaxHistory
    /\ \E id \in ConsentIds :
          LET r == WithdrawConsent(data, id)
          IN  /\ data' = After(data, r)
              /\ reply' = Called("withdraw_consent", data, id, r)
    /\ UNCHANGED <<flags, keys, payments, group_code, duration_days, bucket,
                   est, base, ret, fin>>

Check ==
    /\ \E u \in Subjects, p \in ConsentPurposes :
          LET r == CheckConsent(data, u, p)
          IN  /\ data' = After(data, r)
              /\ reply' = Called("check_consent", data, <<u, p>>, r)
    /\ UNCHANGED <<flags, keys, payments, group_code, duration_days, bucket,
                   est, base, ret, fin>>

\* time passes
ConsentTick ==
    /\ data.tick < Len(ConsentTimes)
    /\ data' = [data EXCEPT !.tick = @ + 1, !.now = ConsentTimes[data.tick + 1]]
    /\ UNCHANGED <<flags, keys, payments, group_code, duration_days, bucket,
                   est, base, ret, fin, reply>>

NextConsent == Create \/ Withdraw \/ Check \/ ConsentTick

SpecConsent == InitConsent /\ [][NextConsent]_vars

\* the manager holding the one consent id of m, as check_consent sees it
OnlyConsent(m, id) ==
    [m EXCEPT !.consents = (id :> m.consents[id]), !.ids = <<id>>]

\* C26: withdraw_consent on a known consent with a withdrawable template
\* returns True, sets its status to withdrawn and appends one 'withdrawn'
\* history entry, and check_consent for its subject and purpose is not
\* satisfied by it afterwards; on an unknown id or a consent whose template
\* is not withdrawable it returns False and the consents and the history
\* stay as they were.
C26_Withdrawal ==
    reply.op = "withdraw_consent" =>
        LET id == reply.args
            old == reply.before
        IN  IF id \in DOMAIN old.consents
               /\ Withdrawable(old.consents[id].template)
            THEN /\ reply.result = TRUE
                 /\ data.consents[id].status = "withdrawn"
                 /\ data.consents =
                       [old.consents EXCEPT ![id].status = "withdrawn"]
                 /\ data.history =
                       Append(old.history, [action |-> "withdrawn",
                                            consent_id |-> id])
                 /\ ~CheckConsent(OnlyConsent(data, id),
                                  data.consents[id].subject_id,
                                  data.consents[id].purpose).result
            ELSE /\ reply.result = FALSE
                 /\ data.consents = old.consents
                 /\ data.history = old.history

\* A given analytics consent that satisfied check_consent is withdrawn.
C26_Witness ==
    /\ reply.op = "withdraw_consent"
    /\ reply.result = TRUE
    /\ reply.args[2] = "analytics"
    /\ reply.before.consents[reply.args].status = "given"
    /\ CheckConsent(reply.before, "user123", "analytics").result
    /\ ~CheckConsent(data, "user123", "analytics").result
    /\ data.consents[reply.args].status = "withdrawn"

\* A monitoring consent is not withdrawn: the call returns False.
WithdrawalRefused ==
    /\ reply.op = "withdraw_consent"
    /\ reply.args \in DOMAIN reply.before.consents
    /\ reply.args[2] = "monitoring"
    /\ reply.result = FALSE

----------------------------------------------------------------------------
(* Data retention manager (src/modules/privacy_analytics/privacy/          *)
(* data_retention.py).  The manager is kept in data: the dictionary        *)
(* data_lifecycle with the order of its keys, the event log and the        *)
(* clock; reply holds the last call with the manager as it was before.     *)
(* The event log is the number of its older events and the list of the     *)
(* recent ones.                                                            *)

\* retention_period of the policies, in days
RetentionPeriods == [log_data |-> 30, personal_data |-> 365]

EventLimit == 10000
EventKeep == 5000

\* _log_retention_event: the event is appended, and a log of more than
\* 10000 events is cut to its last 5000
LogRetentionEvent(events, event_type, data_id) ==
    LET recent == Append(events.recent,
                         [event_type |-> event_type, data_id |-> data_id])
    IN  IF events.older + Len(recent) > EventLimit
        THEN [older |-> EventKeep - Len(recent), recent |-> recent]
        ELSE [older |-> events.older, recent |-> recent]

\* register_data
RegisterData(m, data_id, category) ==
    LET entry == [category |-> category,
                  expires_at |-> m.now + RetentionPeriods[category],
                  status |-> "active",
                  expired_at |-> None]
    IN  [result |-> TRUE,
         lifecycle |-> (data_id :> entry) @@ m.lifecycle,
         ids |-> IF data_id \in DOMAIN m.lifecycle THEN m.ids
                 ELSE Append(m.ids, data_id),
         events |-> LogRetentionEvent(m.events, "data_registered", data_id)]

\* update_data_status
UpdateDataStatus(m, data_id, status) ==
    IF data_id \notin DOMAIN m.lifecycle
    THEN [result |-> FALSE, lifecycle |-> m.lifecycle, ids |-> m.ids,
          events |-> m.events]
    ELSE [result |-> TRUE,
          lifecycle |-> [m.lifecycle EXCEPT ![data_id].status = status],
          ids |-> m.ids,
          events |-> LogRetentionEvent(m.events, "status_updated", data_id)]

\* A mutant of the loop of check_data_expiry: the status is not tested.
RECURSIVE ExpiryLoopAnyStatus(_, _)
ExpiryLoopAnyStatus(m, i) ==
    IF i = 0
    THEN [result |-> <<>>, lifecycle |-> m.lifecycle, ids |-> m.ids,
          events |-> m.events]
    ELSE LET r == ExpiryLoopAnyStatus(m, i - 1)
             id == m.ids[i]
         IN  IF m.now > m.lifecycle[id].expires_at
             THEN [result |-> Append(r.result, id),
                   lifecycle |-> [r.lifecycle EXCEPT
                                     ![id].status = "expired",
                                     ![id].expired_at = Some(m.now)],
                   ids |-> r.ids,
                   events |-> LogRetentionEvent(r.events, "data_expired", id)]
             ELSE r

\* the loop of check_data_expiry over the first i keys of data_lifecycle
RECURSIVE ExpiryLoop(_, _)
ExpiryLoop(m, i) ==
    IF i = 0
    THEN [result |-> <<>>, lifecycle |-> m.lifecycle, ids |-> m.ids,
          events |-> m.events]
    ELSE LET r == ExpiryLoop(m, i - 1)
             id == m.ids[i]
         IN  IF m.lifecycle[id].status = "active"
                /\ m.now > m.lifecycle[id].expires_at
             THEN [result |-> Append(r.result, id),
                   lifecycle |-> [r.lifecycle EXCEPT
                                     ![id].status = "expired",
                                     ![id].expired_at = Some(m.now)],
                   ids |-> r.ids,
                   events |-> LogRetentionEvent(r.events, "data_expired", id)]
             ELSE r

\* check_data_expiry
CheckDataExpiry(m) == ExpiryLoop(m, Len(m.ids))

(* Specification of the data retention manager                             *)

MaxEvents == 3
DataIds == {"data123", "data456"}
DataCategories == DOMAIN RetentionPeriods
DataStatuses == {"active", "archived", "expired"}
RetentionTimes == <<0, 30, 31, 400>>

AfterRetention(m, r) ==
    [op |-> "retention", lifecycle |-> r.lifecycle, ids |-> r.ids,
     events |-> r.events, now |-> m.now, tick |-> m.tick]

\* a new manager, or one that has logged events before and holds no data
InitRetention ==
    /\ flags = [SKIP_FROZEN |-> FALSE, EXCLUDE_TRIALS |-> FALSE]
    /\ keys = EmptyBag
    /\ payments = EmptyBag
    /\ group_code = NoCode
    /\ duration_days = None
    /\ bucket = NoCode
    /\ est = Idle
    /\ base = Idle
    /\ ret = Idle
    /\ fin = Idle
    /\ \E older \in {0, EventLimit - 1} :
          data = [op |-> "retention", lifecycle |-> <<>>, ids |-> <<>>,
                  events |-> [older |-> older, recent |-> <<>>],
                  now |-> RetentionTimes[1], tick |-> 1]
    /\ reply = Idle

Register ==
    /\ Len(data.events.recent) < MaxEvents
    /\ \E id \in DataIds, c \in DataCategories :
          LET r == RegisterData(data, id, c)
          IN  /\ data' = AfterRetention(data, r)
              /\ reply' = Called("register_data", data, <<id, c>>, r)
    /\ UNCHANGED <<flags, keys, payments, group_code, duration_days, bucket,
                   est, base, ret, fin>>

UpdateStatus ==
    /\ Len(data.events.recent) < MaxEvents
    /\ \E id \in DataIds, st \in DataStatuses :
          LET r == UpdateDataStatus(data, id, st)
          IN  /\ data' = AfterRetention(data, r)
              /\ reply' = Called("update_data_status", data, <<id, st>>, r)
    /\ UNCHANGED <<flags, keys, payments, group_code, duration_days, bucket,
                   est, base, ret, fin>>

CheckExpiry ==
    /\ LET r == CheckDataExpiry(data)
       IN  /\ data' = AfterRetention(data, r)
           /\ reply' = Called("check_data_expiry", data, <<>>, r)
    /\ UNCHANGED <<flags, keys, payments, group_code, duration_days, bucket,
                   est, base, ret, fin>>

RetentionTick ==
    /\ data.tick < Len(RetentionTimes)
    /\ data' = [data EXCEPT !.tick = @ + 1,
                            !.now = RetentionTimes[data.tick + 1]]
    /\ UNCHANGED <<flags, keys, payments, group_code, duration_days, bucket,
                   est, base, ret, fin, reply>>

NextRetention == Register \/ UpdateStatus \/ CheckExpiry \/ RetentionTick

SpecRetention == InitRetention /\ [][NextRetention]_vars

\* the entries of manager m that are active and past their expiry
Due(m) ==
    {id \in DOMAIN m.lifecycle :
        /\ m.lifecycle[id].status = "active"
        /\ m.lifecycle[id].expires_at < m.now}

SeqSet(q) == {q[i] : i \in 1..Len(q)}

\* C27: check_data_expiry moves exactly the active entries whose
\* expires_at is before the current time to expired, returns exactly their
\* ids, logs one data_expired event for each, leaves every other entry as
\* it was, and a call repeated at once or later returns none of these ids.
C27_ExpiryFrame ==
    reply.op = "check_data_expiry" =>
        LET old == reply.before
            n == Len(reply.result)
            logged == data.events.recent
        IN  /\ SeqSet(reply.result) = Due(old)
            /\ n = Cardinality(Due(old))
            /\ DOMAIN data.lifecycle = DOMAIN old.lifecycle
            /\ \A id \in DOMAIN old.lifecycle :
                  IF id \in Due(old)
                  THEN data.lifecycle[id].status = "expired"
                  ELSE data.lifecycle[id] = old.lifecycle[id]
            /\ Len(logged) = Len(old.events.recent) + n
            /\ SubSeq(logged, 1, Len(old.events.recent)) = old.events.recent
            /\ \A i \in 1..n :
                  logged[Len(old.events.recent) + i] =
                      [event_type |-> "data_expired",
                       data_id |-> reply.result[i]]
            /\ \A j \in data.tick..Len(RetentionTimes) :
                  SeqSet(CheckDataExpiry(
                      [data EXCEPT !.now = RetentionTimes[j]]).result)
                  \cap SeqSet(reply.result) = {}

\* One entry expires while another is not yet due and stays active.
C27_Witness ==
    /\ reply.op = "check_data_expiry"
    /\ reply.result = <<"data123">>
    /\ data.lifecycle["data123"].status = "expired"
    /\ "data456" \in DOMAIN data.lifecycle
    /\ data.lifecycle["data456"].status = "active"
    /\ data.lifecycle["data456"] = reply.before.lifecycle["data456"]

----------------------------------------------------------------------------
(* Alert manager (src/modules/privacy_analytics/alerts/alert_manager.py).  *)
(* The manager is kept in data: the stored alerts (active_alerts and       *)
(* alert_history receive the same alerts), the alerts handed to the        *)
(* notification channels, metrics_cache with the last_alert instants and   *)
(* the clock in minutes; reply holds the last call with the manager as it  *)
(* was before.                                                             *)

\* load_alert_rules: the two rules on the CPU usage
AlertRules ==
    [high_cpu_usage |-> [threshold |-> 80, cooldown_minutes |-> 30],
     critical_cpu_usage |-> [threshold |-> 95, cooldown_minutes |-> 5]]

\* A mutant of is_alert_in_cooldown that never finds a cooldown.
IsAlertInCooldownNever(m, rule_id) == FALSE

\* is_alert_in_cooldown: time_since_last < cooldown_minutes
IsAlertInCooldown(m, rule_id) ==
    /\ rule_id \in DOMAIN m.metrics_cache
    /\ m.now - m.metrics_cache[rule_id].last_alert
          < AlertRules[rule_id].cooldown_minutes

\* evaluate_condition for "cpu_usage > N": cpu_usage_percent > threshold
EvaluateCondition(rule_id, metrics) ==
    metrics.cpu_usage_percent > AlertRules[rule_id].threshold

\* check_alert_rule; privacy_ok is the answer of validate_metrics on the
\* alert, and done_at the instant read by update_cooldown
CheckAlertRule(m, rule_id, metrics, privacy_ok, done_at) ==
    IF IsAlertInCooldown(m, rule_id)
       \/ ~EvaluateCondition(rule_id, metrics)
       \/ ~privacy_ok
    THEN [result |-> "none", stored |-> m.stored, notified |-> m.notified,
          metrics_cache |-> m.metrics_cache]
    ELSE LET alert == [rule_id |-> rule_id, timestamp |-> m.now,
                       metrics |-> metrics]
         IN  [result |-> "alert",
              stored |-> Append(m.stored, alert),
              notified |-> Append(m.notified, alert),
              metrics_cache |->
                  (rule_id :> [last_alert |-> done_at]) @@ m.metrics_cache]

(* Specification of the alert manager                                      *)

AlertTimes == <<0, 4, 5, 29, 30, 34>>
CpuUsages == {50, 90, 99}

InitAlerts ==
    /\ flags = [SKIP_FROZEN |-> FALSE, EXCLUDE_TRIALS |-> FALSE]
    /\ keys = EmptyBag
    /\ payments = EmptyBag
    /\ group_code = NoCode
    /\ duration_days = None
    /\ bucket = NoCode
    /\ est = Idle
    /\ base = Idle
    /\ ret = Idle
    /\ fin = Idle
    /\ data = [op |-> "alerts", stored |-> <<>>, notified |-> <<>>,
               metrics_cache |-> <<>>, now |-> AlertTimes[1], tick |-> 1]
    /\ reply = Idle

\* one call; sending the notifications may take until the next instant
CheckRule ==
    /\ \E rule_id \in DOMAIN AlertRules, cpu \in CpuUsages,
          privacy_ok \in BOOLEAN,
          k \in {j \in {data.tick, data.tick + 1} : j <= Len(AlertTimes)} :
          LET metrics == [cpu_usage_percent |-> cpu]
              r == CheckAlertRule(data, rule_id, metrics, privacy_ok,
                                  AlertTimes[k])
              end == IF r.result = "alert" THEN k ELSE data.tick
          IN  /\ data' = [op |-> "alerts", stored |-> r.stored,
                          notified |-> r.notified,
                          metrics_cache |-> r.metrics_cache,
                          now |-> AlertTimes[end], tick |-> end]
              /\ reply' = Called("check_alert_rule", data,
                                 [rule_id |-> rule_id, metrics |-> metrics,
                                  privacy_ok |-> privacy_ok], r)
    /\ UNCHANGED <<flags, keys, payments, group_code, duration_days, bucket,
                   est, base, ret, fin>>

AlertTick ==
    /\ data.tick < Len(AlertTimes)
    /\ data' = [data EXCEPT !.tick = @ + 1, !.now = AlertTimes[data.tick + 1]]
    /\ UNCHANGED <<flags, keys, payments, group_code, duration_days, bucket,
                   est, base, ret, fin, reply>>

NextAlerts == CheckRule \/ AlertTick

SpecAlerts == InitAlerts /\ [][NextAlerts]_vars

\* two alerts of one rule in the list are a cooldown apart
CooldownApart(alerts) ==
    \A i, j \in 1..Len(alerts) :
        (i < j /\ alerts[i].rule_id = alerts[j].rule_id) =>
            alerts[j].timestamp - alerts[i].timestamp
                >= AlertRules[alerts[i].rule_id].cooldown_minutes

\* C30: over any sequence of check_alert_rule calls, two alerts of one rule
\* are stored, and notified, at least the rule's cooldown_minutes apart,
\* whatever the metrics; a call in the cooldown, with a false condition or
\* with an alert that fails the privacy check stores and notifies nothing
\* and leaves the cooldown as it was.
C30_Cooldown ==
    /\ data.op = "alerts" =>
          /\ CooldownApart(data.stored)
          /\ CooldownApart(data.notified)
    /\ reply.op = "check_alert_rule" =>
          LET old == reply.before
              a == reply.args
          IN  (\/ IsAlertInCooldown(old, a.rule_id)
               \/ ~EvaluateCondition(a.rule_id, a.metrics)
               \/ ~a.privacy_ok) =>
                  /\ reply.result = "none"
                  /\ data.stored = old.stored
                  /\ data.notified = old.notified
                  /\ data.metrics_cache = old.metrics_cache

\* The metrics are above the threshold and pass the privacy check, but the
\* rule alerted 29 minutes ago with a cooldown of 30: nothing is stored.
C30_Witness ==
    /\ reply.op = "check_alert_rule"
    /\ reply.args.rule_id = "high_cpu_usage"
    /\ reply.args.metrics.cpu_usage_percent = 99
    /\ reply.args.privacy_ok
    /\ reply.result = "none"
    /\ Len(data.stored) = 1
    /\ data.stored[1].rule_id = "high_cpu_usage"
    /\ data.now - data.metrics_cache["high_cpu_usage"].last_alert = 29

----------------------------------------------------------------------------
(* Calendar window resolver (db.py, get_month_bounds).  A datetime is a    *)
(* record of its fields; replace() builds a new datetime and raises        *)
(* ValueError when the fields do not name a date of the calendar.          *)

IsLeap(y) == (y % 4 = 0) /\ ((y % 100 # 0) \/ (y % 400 = 0))

DaysInMonth(y, m) ==
    IF m = 2 THEN (IF IsLeap(y) THEN 29 ELSE 28)
    ELSE IF m \in {4, 6, 9, 11} THEN 30 ELSE 31

\* the checks datetime makes on construction (years 1..9999)
ValidDate(d) ==
    /\ 1 <= d.year /\ d.year <= 9999
    /\ 1 <= d.month /\ d.month <= 12
    /\ 1 <= d.day /\ d.day <= DaysInMonth(d.year, d.month)

ValueError == [op |-> "raised", error |-> "ValueError"]

\* datetime.replace(**changes): the named fields replaced, the rest kept
Replace(d, changes) ==
    LET r == [f \in DOMAIN d |->
                 IF f \in DOMAIN changes THEN changes[f] ELSE d[f]]
    IN  IF ValidDate(r) THEN r ELSE ValueError

\* A mutant of the resolver without the December branch.
GetMonthBoundsNoRollover(now_utc) ==
    LET start == Replace(now_utc, [day |-> 1, hour |-> 0, minute |-> 0,
                                   second |-> 0, microsecond |-> 0])
        end == Replace(start, [month |-> start.month + 1])
    IN  IF end = ValueError THEN ValueError
        ELSE [op |-> "bounds", start |-> start, end |-> end]

\* start = now_utc.replace(day=1, hour=0, minute=0, second=0, microsecond=0)
\* end = start.replace(year=start.year + 1, month=1) if start.month == 12
\*       else start.replace(month=start.month + 1)
GetMonthBounds(now_utc) ==
    LET start == Replace(now_utc, [day |-> 1, hour |-> 0, minute |-> 0,
                                   second |-> 0, microsecond |-> 0])
        end == IF start.month = 12
               THEN Replace(start, [year |-> start.year + 1, month |-> 1])
               ELSE Replace(start, [month |-> start.month + 1])
    IN  IF start = ValueError \/ end = ValueError THEN ValueError
        ELSE [op |-> "bounds", start |-> start, end |-> end]

(* Specification of the resolver alone: the reference instant is drawn     *)
(* from the first, a middle and the last day of every month of a leap and  *)
(* a common year, at the first and the last instant of the day and mixes   *)
(* of the two.                                                             *)

FirstYear == 2024
Years == {FirstYear, FirstYear + 1}

Instants ==
    {[year |-> y, month |-> m, day |-> d, hour |-> h, minute |-> mi,
      second |-> sec, microsecond |-> us] :
        y \in Years, m \in 1..12, d \in {1, 15, 28, 29, 30, 31},
        h \in {0, 23}, mi \in {0, 59}, sec \in {0, 59},
        us \in {0, 999999}}

InitBounds ==
    /\ flags = [SKIP_FROZEN |-> FALSE, EXCLUDE_TRIALS |-> FALSE]
    /\ keys = EmptyBag
    /\ payments = EmptyBag
    /\ group_code = NoCode
    /\ duration_days = None
    /\ bucket = NoCode
    /\ est = Idle
    /\ base = Idle
    /\ ret = Idle
    /\ \E now \in {i \in Instants : ValidDate(i)} :
           fin = [op |-> "clock", now |-> now]
    /\ data = Idle
    /\ reply = Idle

\* router.py: dt_start, dt_end = await db.get_month_bounds(now)
MonthBounds ==
    /\ data = Idle
    /\ data' = GetMonthBounds(fin.now)
    /\ UNCHANGED <<flags, keys, payments, group_code, duration_days, bucket,
                   est, base, ret, fin, reply>>

NextBounds == MonthBounds

SpecBounds == InitBounds /\ [][NextBounds]_vars

\* the fields of a datetime in the order of comparison
DtFields(d) ==
    <<d.year, d.month, d.day, d.hour, d.minute, d.second, d.microsecond>>

DtLess(a, b) ==
    \E i \in 1..7 :
        /\ DtFields(a)[i] < DtFields(b)[i]
        /\ \A j \in 1..(i - 1) : DtFields(a)[j] = DtFields(b)[j]

DtLe(a, b) == a = b \/ DtLess(a, b)

\* the first instant of the calendar month number n, months counted from
\* January of year 0
FirstInstant(n) ==
    [year |-> n \div 12, month |-> (n % 12) + 1, day |-> 1, hour |-> 0,
     minute |-> 0, second |-> 0, microsecond |-> 0]

MonthNumber(d) == d.year * 12 + (d.month - 1)

\* C22: for every reference instant, get_month_bounds returns the first
\* instant of the instant's calendar month and the first instant of the
\* following calendar month, start <= now < end, 1 January of the next
\* year for a December instant, and it raises nothing.
C22_MonthBounds ==
    data # Idle =>
        /\ data.op = "bounds"
        /\ data.start = FirstInstant(MonthNumber(fin.now))
        /\ data.end = FirstInstant(MonthNumber(fin.now) + 1)
        /\ DtLe(data.start, fin.now)
        /\ DtLess(fin.now, data.end)
        /\ fin.now.month = 12 =>
             /\ data.end.year = fin.now.year + 1
             /\ data.end.month = 1
             /\ data.end.day = 1

\* The last instant of a December: the window ends on 1 January of the
\* next year.
C22_Witness ==
    /\ fin.op = "clock"
    /\ fin.now.month = 12
    /\ fin.now.day = 31
    /\ fin.now.hour = 23
    /\ fin.now.microsecond = 999999
    /\ data # Idle
    /\ data.op = "bounds"
    /\ data.end = FirstInstant(MonthNumber(fin.now) + 1)
    /\ data.end.year = FirstYear + 1

====
